---- MODULE Spec2Model ----
(***************************************************************************)
(* AdminOps Lite: the HTTP API of src/api/src/server.js over its SQLite    *)
(* store (tables clients and requests), modelled at the granularity of the *)
(* handlers' awaited store statements.                                     *)
(*                                                                         *)
(* Strings are sequences of one-character strings, so that trim() and      *)
(* String() are computed, not assumed.  Timestamps are integers (the ISO   *)
(* strings the code stores are fixed-width, so their order is the order of *)
(* the instants).                                                          *)
(***************************************************************************)
EXTENDS Integers, Sequences, FiniteSets, TLC

VARIABLES
    booted,      \* start() has run and the listener is up
    now,         \* the wall clock, Date.now()
    clients,     \* table clients: id -> row
    requests,    \* table requests: id -> row
    nextClient,  \* number of client ids handed out by randomUUID()
    nextRequest, \* number of request ids handed out by randomUUID()
    publicRate,  \* the rate limiter's Map: address -> {count, resetAt}
    passed,      \* history: address -> the instants its calls reached a handler
    calls,       \* the HTTP calls in flight or just answered: slot -> call
    board        \* the board page: the requests it shows, and what it awaits

vars ==
    <<booted, now, clients, requests, nextClient, nextRequest, publicRate, passed, calls,
      board>>

----------------------------------------------------------------------------
(* Bounds of the model *)

MaxClients == 3
MaxRequests == 2
MaxTime == 1
MaxPublicCalls == 3

----------------------------------------------------------------------------
(* JavaScript values and strings *)

NULL == [k |-> "null"]
Undefined == [k |-> "undefined"]
Str(s) == [k |-> "string", s |-> s]
Num(n) == [k |-> "number", n |-> n]

Digit(d) == <<"0", "1", "2", "3", "4", "5", "6", "7", "8", "9">>[d + 1]

RECURSIVE Digits(_)
Digits(n) == IF n < 10 THEN <<Digit(n)>> ELSE Append(Digits(n \div 10), Digit(n % 10))

\* String(v)
JSString(v) ==
    CASE v.k = "string" -> v.s
      [] v.k = "number" -> Digits(v.n)
      [] v.k = "null" -> <<"n", "u", "l", "l">>
      [] v.k = "undefined" -> <<"u", "n", "d", "e", "f", "i", "n", "e", "d">>

\* the truthiness test of !v and v || x
Truthy(v) ==
    CASE v.k = "string" -> v.s # <<>>
      [] v.k = "number" -> v.n # 0
      [] OTHER -> FALSE

RECURSIVE TrimStart(_)
TrimStart(s) == IF s # <<>> /\ Head(s) = " " THEN TrimStart(Tail(s)) ELSE s

RECURSIVE TrimEnd(_)
TrimEnd(s) == IF s # <<>> /\ s[Len(s)] = " " THEN TrimEnd(SubSeq(s, 1, Len(s) - 1)) ELSE s

\* String.prototype.trim
Trim(s) == TrimEnd(TrimStart(s))

----------------------------------------------------------------------------
(* Random sources, ids and the clock *)

\* Math.floor(Math.random() * 900000), the draws the model follows
RandPin == {0, 899999}

\* genPin(), for the draw r of Math.floor(Math.random() * 900000)
genPin(r) == Str(Digits(100000 + r))

\* genClientCode(): the codes the model lets Math.random().toString(36) yield
RandCodes == {Str(<<"a">>), Str(<<"b">>)}

\* req.user.userId of the one operator account
UserId == "operator"

\* the provenance the public route stores in created_by
OwnerLink == "owner_link"

Procs == {1, 2}

\* an id as a caller writes it in a body or a query (String(id) names the row)
Ref(id) == [k |-> "id", id |-> id]

\* the operator's and the public callers' choices of an id in a URL
AnyClientId == 1..(MaxClients + 1)
AnyRequestId == 1..(MaxRequests + 1)

----------------------------------------------------------------------------
(* The store's statements on table clients *)

\* get('SELECT ... FROM clients WHERE id = ?')
ClientById(cl, id) == IF id \in DOMAIN cl THEN cl[id] ELSE Undefined

\* get('SELECT ... FROM clients WHERE client_code = ?'); NULL matches nothing
ClientByCode(cl, code) ==
    IF \E id \in DOMAIN cl : cl[id].client_code = code /\ code.k = "string"
    THEN cl[CHOOSE id \in DOMAIN cl : cl[id].client_code = code]
    ELSE Undefined

\* the table without the index: every code is accepted
CodeFreeNoIndex(cl, id, code) == TRUE

\* idx_clients_client_code: a UNIQUE index rejects a second row with the code
CodeFree(cl, id, code) ==
    code.k # "string" \/ \A o \in DOMAIN cl \ {id} : cl[o].client_code # code

\* run('INSERT INTO clients (id, name, client_code, customer_pin, created_at)')
InsertClient(cl, id, name, code, pin, ts) ==
    [o \in DOMAIN cl \cup {id} |->
        IF o = id
        THEN [id |-> id, name |-> name, client_code |-> code, customer_pin |-> pin,
              archived |-> 0, created_at |-> ts]
        ELSE cl[o]]

\* run('UPDATE clients SET customer_pin = ? WHERE id = ?')
UpdatePin(cl, id, pin) ==
    [o \in DOMAIN cl |-> IF o = id THEN [cl[o] EXCEPT !.customer_pin = pin] ELSE cl[o]]

\* the UPDATE without its WHERE clause
UpdateArchivedAll(cl, id, flag) ==
    [o \in DOMAIN cl |-> [cl[o] EXCEPT !.archived = flag]]

\* run('UPDATE clients SET archived = ? WHERE id = ?')
UpdateArchived(cl, id, flag) ==
    [o \in DOMAIN cl |-> IF o = id THEN [cl[o] EXCEPT !.archived = flag] ELSE cl[o]]

\* run('UPDATE clients SET client_code = ? WHERE id = ?')
UpdateCode(cl, id, code) ==
    [o \in DOMAIN cl |-> IF o = id THEN [cl[o] EXCEPT !.client_code = code] ELSE cl[o]]

\* run('DELETE FROM clients WHERE id = ?')
DeleteClient(cl, id) == [o \in DOMAIN cl \ {id} |-> cl[o]]

\* all('SELECT * FROM clients [WHERE archived = 0]'), as the set of rows
SelectClients(cl, includeArchived) ==
    {cl[o] : o \in {i \in DOMAIN cl : includeArchived \/ cl[i].archived = 0}}

----------------------------------------------------------------------------
(* The store's statements on table requests *)

\* get('SELECT * FROM requests WHERE id = ?')
RequestById(rq, id) == IF id \in DOMAIN rq THEN rq[id] ELSE Undefined

\* run('INSERT INTO requests (...) VALUES (...)')
InsertRequest(rq, row) == [o \in DOMAIN rq \cup {row.id} |-> IF o = row.id THEN row ELSE rq[o]]

\* the UPDATE that stamps created_at as well
UpdateRequestStampsCreated(rq, id, next, ts) ==
    [o \in DOMAIN rq |->
        IF o = id
        THEN [rq[o] EXCEPT !.title = next.title, !.details = next.details,
                           !.customer_name = next.customer_name,
                           !.due_date = next.due_date, !.tags = next.tags,
                           !.status = next.status, !.updated_at = ts, !.created_at = ts]
        ELSE rq[o]]

\* run('UPDATE requests SET title = ?, ..., updated_at = ? WHERE id = ?')
UpdateRequest(rq, id, next, ts) ==
    [o \in DOMAIN rq |->
        IF o = id
        THEN [rq[o] EXCEPT !.title = next.title, !.details = next.details,
                           !.customer_name = next.customer_name,
                           !.due_date = next.due_date, !.tags = next.tags,
                           !.status = next.status, !.updated_at = ts]
        ELSE rq[o]]

\* the DELETE of every request of the request's client
DeleteRequestWholeClient(rq, id) ==
    [o \in {r \in DOMAIN rq : rq[r].client_id # rq[id].client_id} |-> rq[o]]

\* run('DELETE FROM requests WHERE id = ?')
DeleteRequest(rq, id) == [o \in DOMAIN rq \ {id} |-> rq[o]]

\* the cascade with the wrong column: DELETE FROM requests WHERE id = ?
DeleteRequestsOfById(rq, clientId) ==
    [o \in {i \in DOMAIN rq : rq[i].id # clientId} |-> rq[o]]

\* run('DELETE FROM requests WHERE client_id = ?')
DeleteRequestsOf(rq, clientId) ==
    [o \in {i \in DOMAIN rq : rq[i].client_id # clientId} |-> rq[o]]

----------------------------------------------------------------------------
(* HTTP calls: a slot holds the call in flight (pc names the statement the *)
(* handler awaits next) or the last call answered (pc = "done").           *)

Idle == [op |-> "none", pc |-> "idle"]

Free(p) == calls[p].pc \in {"idle", "done"}

At(p, op, pc) == calls[p].op = op /\ calls[p].pc = pc

\* res.status(status).json(body)
Reply(status, body) == [status |-> status, body |-> body]

\* res.status(status).json({ error: { message } })
Fail(status, message) == Reply(status, [error |-> [message |-> message]])

\* a rejected store statement: the async handler throws and sends nothing
Unhandled == [status |-> 0, body |-> [unhandled |-> TRUE]]

Await(p, op, req, pc, loc) ==
    calls' = [calls EXCEPT ![p] = [op |-> op, pc |-> pc, req |-> req, loc |-> loc]]

Answer(p, op, req, res) ==
    calls' = [calls EXCEPT ![p] = [op |-> op, pc |-> "done", req |-> req, res |-> res]]

Answered(p, op) == calls[p].op = op /\ calls[p].pc = "done"

----------------------------------------------------------------------------
(* Start-up *)

\* an empty table
Empty == [x \in {} |-> x]

\* the caller addresses the model follows, and publicRate.get(key) of a new key
Addresses == {"10.0.0.1", "10.0.0.2"}
Absent == [absent |-> TRUE]

\* the board page before it has loaded anything: useState([]), nothing awaited
Quiet == [k |-> "none"]
NoBoard == [requests |-> Empty, awaits |-> [p \in Procs |-> Quiet]]

Init ==
    /\ booted = FALSE
    /\ now = 0
    /\ clients = Empty
    /\ requests = Empty
    /\ nextClient = 0
    /\ nextRequest = 0
    /\ publicRate = [ip \in Addresses |-> Absent]
    /\ passed = [ip \in Addresses |-> <<>>]
    /\ calls = [p \in Procs |-> Idle]
    /\ board = NoBoard

\* the backfill's SELECT without its WHERE clause: every client
MissingCodesAll(cl) == DOMAIN cl

\* all('SELECT id FROM clients WHERE client_code IS NULL OR client_code = ""')
MissingCodes(cl) ==
    {id \in DOMAIN cl : cl[id].client_code = NULL \/ cl[id].client_code = Str(<<>>)}

Least(S) == CHOOSE x \in S : \A y \in S : x <= y

\* start()'s backfill loop: every outcome of the draws; the retry loop can end
\* with any code, and the UPDATE of a taken code is rejected by the index
RECURSIVE Backfill(_, _)
Backfill(cl, todo) ==
    IF todo = {}
    THEN {[clients |-> cl, ok |-> TRUE]}
    ELSE LET c == Least(todo)
         IN  UNION {IF CodeFree(cl, c, code)
                    THEN Backfill(UpdateCode(cl, c, code), todo \ {c})
                    ELSE {[clients |-> cl, ok |-> FALSE]} : code \in RandCodes}

\* start(): the default client, the backfill, then app.listen
Start ==
    /\ ~booted
    /\ \E code \in RandCodes :
         LET fresh == DOMAIN clients = {}
             withDefault ==
                 IF fresh
                 THEN InsertClient(clients, nextClient + 1, Str(<<"D", "e", "f">>), code, NULL, now)
                 ELSE clients
         IN  /\ fresh => nextClient < MaxClients
             /\ nextClient' = IF fresh THEN nextClient + 1 ELSE nextClient
             /\ \E out \in Backfill(withDefault, MissingCodes(withDefault)) :
                  /\ clients' = out.clients
                  /\ booted' = out.ok
    /\ UNCHANGED <<now, requests, nextRequest, publicRate, passed, calls, board>>

\* the process ends (a deploy, a crash, process.exit) and start() runs again on
\* the same database: the calls in flight and the limiter's Map are gone
Stop ==
    /\ booted
    /\ booted' = FALSE
    /\ calls' = [p \in Procs |-> Idle]
    /\ publicRate' = [ip \in Addresses |-> Absent]
    /\ UNCHANGED <<now, clients, requests, nextClient, nextRequest, passed, board>>

\* time passes
Tick ==
    /\ booted /\ now < MaxTime
    /\ now' = now + 1
    /\ UNCHANGED <<booted, clients, requests, nextClient, nextRequest, publicRate, passed, calls, board>>

\* time passes up to one of the instants the model follows
Advance(instants) ==
    /\ booted
    /\ \E t \in instants : t > now /\ now' = t
    /\ UNCHANGED <<booted, clients, requests, nextClient, nextRequest, publicRate, passed, calls, board>>

----------------------------------------------------------------------------
(* Client Directory: the operator's routes on clients *)

Names == {Undefined, Str(<<"x">>), Str(<<" ", "x", "y">>)}

\* one turn of the uniqueness loop of POST /clients, after get #i answered
CodeLoop(p, req, loc, exists) ==
    IF exists = Undefined
    THEN \E r \in RandPin : Await(p, "PostClients", req, "insert", [loc EXCEPT !.pin = genPin(r)])
    ELSE \E code \in RandCodes :
           IF loc.i + 1 < 5
           THEN Await(p, "PostClients", req, "code", [loc EXCEPT !.clientCode = code, !.i = loc.i + 1])
           ELSE \E r \in RandPin :
                  Await(p, "PostClients", req, "insert",
                        [loc EXCEPT !.clientCode = code, !.i = loc.i + 1, !.pin = genPin(r)])

\* app.post('/clients'): validation, the ids, and the first lookup of the code
PostClients(p, name) ==
    /\ booted /\ Free(p)
    /\ LET req == [name |-> name]
       IN  IF ~Truthy(name) \/ Len(Trim(JSString(name))) < 2
           THEN /\ Answer(p, "PostClients", req, Fail(400, "Client name is required"))
                /\ UNCHANGED nextClient
           ELSE /\ nextClient < MaxClients
                /\ nextClient' = nextClient + 1
                /\ \E code \in RandCodes :
                     CodeLoop(p, req,
                              [id |-> nextClient + 1, ts |-> now, clientCode |-> code,
                               i |-> 0, pin |-> NULL],
                              ClientByCode(clients, code))
    /\ UNCHANGED <<booted, now, clients, requests, nextRequest, publicRate, passed, board>>

\* app.post('/clients'): a further lookup of the code
PostClientsCode(p) ==
    /\ At(p, "PostClients", "code")
    /\ CodeLoop(p, calls[p].req, calls[p].loc, ClientByCode(clients, calls[p].loc.clientCode))
    /\ UNCHANGED <<booted, now, clients, requests, nextClient, nextRequest, publicRate, passed, board>>

\* app.post('/clients'): the INSERT
PostClientsInsert(p) ==
    /\ At(p, "PostClients", "insert")
    /\ LET c == calls[p]
       IN  IF CodeFree(clients, c.loc.id, c.loc.clientCode)
           THEN /\ clients' = InsertClient(clients, c.loc.id, Str(Trim(JSString(c.req.name))),
                                           c.loc.clientCode, c.loc.pin, c.loc.ts)
                /\ Await(p, "PostClients", c.req, "fetch", c.loc)
           ELSE /\ Answer(p, "PostClients", c.req, Unhandled)
                /\ UNCHANGED clients
    /\ UNCHANGED <<booted, now, requests, nextClient, nextRequest, publicRate, passed, board>>

\* app.post('/clients'): the row is read back and returned
PostClientsFetch(p) ==
    /\ At(p, "PostClients", "fetch")
    /\ Answer(p, "PostClients", calls[p].req,
              Reply(201, [client |-> ClientById(clients, calls[p].loc.id)]))
    /\ UNCHANGED <<booted, now, clients, requests, nextClient, nextRequest, publicRate, passed, board>>

\* app.post('/clients/:id/rotate-pin'): the lookup and the draw of the PIN
PostClientsRotatePin(p, id) ==
    /\ booted /\ Free(p)
    /\ IF ClientById(clients, id) = Undefined
       THEN Answer(p, "RotatePin", [id |-> id], Fail(404, "Client not found"))
       ELSE \E r \in RandPin : Await(p, "RotatePin", [id |-> id], "update", [pin |-> genPin(r)])
    /\ UNCHANGED <<booted, now, clients, requests, nextClient, nextRequest, publicRate, passed, board>>

\* app.post('/clients/:id/rotate-pin'): the UPDATE
PostClientsRotatePinUpdate(p) ==
    /\ At(p, "RotatePin", "update")
    /\ clients' = UpdatePin(clients, calls[p].req.id, calls[p].loc.pin)
    /\ Await(p, "RotatePin", calls[p].req, "fetch", calls[p].loc)
    /\ UNCHANGED <<booted, now, requests, nextClient, nextRequest, publicRate, passed, board>>

\* app.post('/clients/:id/rotate-pin'): the row is read back and returned
PostClientsRotatePinFetch(p) ==
    /\ At(p, "RotatePin", "fetch")
    /\ Answer(p, "RotatePin", calls[p].req,
              Reply(200, [client |-> ClientById(clients, calls[p].req.id)]))
    /\ UNCHANGED <<booted, now, clients, requests, nextClient, nextRequest, publicRate, passed, board>>

\* app.get('/clients/:id/pin')
GetClientsPinReply(cl, id) ==
    LET row == ClientById(cl, id)
    IN  IF row = Undefined
        THEN Fail(404, "Client not found")
        ELSE Reply(200, [pin |-> IF Truthy(row.customer_pin) THEN row.customer_pin ELSE NULL])

GetClientsPin(p, id) ==
    /\ booted /\ Free(p)
    /\ Answer(p, "GetPin", [id |-> id], GetClientsPinReply(clients, id))
    /\ UNCHANGED <<booted, now, clients, requests, nextClient, nextRequest, publicRate, passed, board>>

\* app.get('/clients'); the rows are kept as a set, their order is not modelled
GetClientsReply(cl, includeArchived) ==
    Reply(200, [clients |-> SelectClients(cl, includeArchived)])

GetClients(p, includeArchived) ==
    /\ booted /\ Free(p)
    /\ Answer(p, "GetClients", [includeArchived |-> includeArchived],
              GetClientsReply(clients, includeArchived))
    /\ UNCHANGED <<booted, now, clients, requests, nextClient, nextRequest, publicRate, passed, board>>

\* app.post('/clients/:id/archive') and /unarchive: the lookup
PostClientsArchive(p, id, flag) ==
    /\ booted /\ Free(p)
    /\ IF ClientById(clients, id) = Undefined
       THEN Answer(p, "Archive", [id |-> id, flag |-> flag], Fail(404, "Client not found"))
       ELSE Await(p, "Archive", [id |-> id, flag |-> flag], "update", <<>>)
    /\ UNCHANGED <<booted, now, clients, requests, nextClient, nextRequest, publicRate, passed, board>>

\* app.post('/clients/:id/archive') and /unarchive: the UPDATE
PostClientsArchiveUpdate(p) ==
    /\ At(p, "Archive", "update")
    /\ clients' = UpdateArchived(clients, calls[p].req.id, calls[p].req.flag)
    /\ Await(p, "Archive", calls[p].req, "fetch", <<>>)
    /\ UNCHANGED <<booted, now, requests, nextClient, nextRequest, publicRate, passed, board>>

\* app.post('/clients/:id/archive') and /unarchive: the row is read back
PostClientsArchiveFetch(p) ==
    /\ At(p, "Archive", "fetch")
    /\ Answer(p, "Archive", calls[p].req,
              Reply(200, [client |-> ClientById(clients, calls[p].req.id)]))
    /\ UNCHANGED <<booted, now, clients, requests, nextClient, nextRequest, publicRate, passed, board>>

\* app.delete('/clients/:id'): the lookup
DeleteClients(p, id) ==
    /\ booted /\ Free(p)
    /\ IF ClientById(clients, id) = Undefined
       THEN Answer(p, "DeleteClients", [id |-> id], Fail(404, "Client not found"))
       ELSE Await(p, "DeleteClients", [id |-> id], "requests", <<>>)
    /\ UNCHANGED <<booted, now, clients, requests, nextClient, nextRequest, publicRate, passed, board>>

\* app.delete('/clients/:id'): DELETE FROM requests WHERE client_id = ?; run()
\* resolves with the number of rows the statement changed
DeleteClientsRequests(p) ==
    /\ At(p, "DeleteClients", "requests")
    /\ requests' = DeleteRequestsOf(requests, calls[p].req.id)
    /\ Await(p, "DeleteClients", calls[p].req, "client",
             [changes |-> Cardinality(DOMAIN requests) - Cardinality(DOMAIN requests')])
    /\ UNCHANGED <<booted, now, clients, nextClient, nextRequest, publicRate, passed, board>>

\* app.delete('/clients/:id'): DELETE FROM clients WHERE id = ?, then { ok: true }
DeleteClientsClient(p) ==
    /\ At(p, "DeleteClients", "client")
    /\ clients' = DeleteClient(clients, calls[p].req.id)
    /\ Answer(p, "DeleteClients", calls[p].req, Reply(200, [ok |-> TRUE]))
    /\ UNCHANGED <<booted, now, requests, nextClient, nextRequest, publicRate, passed, board>>

\* app.delete('/clients/:id'): the store rejects the statement awaited; the
\* handler throws at that await, runs no further statement and sends nothing
DeleteClientsRejected(p) ==
    /\ calls[p].op = "DeleteClients" /\ calls[p].pc \in {"requests", "client"}
    /\ Answer(p, "DeleteClients", calls[p].req,
              [status |-> 0, body |-> [unhandled |-> TRUE], at |-> calls[p].pc,
               changes |-> IF calls[p].pc = "client" THEN calls[p].loc.changes ELSE 0])
    /\ UNCHANGED <<booted, now, clients, requests, nextClient, nextRequest, publicRate, passed, board>>

----------------------------------------------------------------------------
(* Request Lifecycle Engine: the operator's routes on requests *)

StNew == Str(<<"n", "e", "w">>)
StDoing == Str(<<"d", "o", "i", "n", "g">>)
StWaiting == Str(<<"w", "a", "i", "t", "i", "n", "g">>)
StDone == Str(<<"d", "o", "n", "e">>)

\* ['new','doing','waiting','done']
Statuses == {StNew, StDoing, StWaiting, StDone}

\* x ? String(x) : null
StringOrNull(v) == IF Truthy(v) THEN Str(JSString(v)) ELSE NULL

\* the row with the caller's provenance dropped: created_by is the operator's
NewRequestByOperator(id, clientId, body, tags, createdBy, ts) ==
    [id |-> id, client_id |-> clientId, title |-> Str(Trim(JSString(body.title))),
     details |-> StringOrNull(body.details), customer_name |-> StringOrNull(body.customerName),
     due_date |-> StringOrNull(body.dueDate), tags |-> tags, status |-> StNew,
     created_by |-> UserId, created_at |-> ts, updated_at |-> ts]

\* the row whose updated_at is left at the epoch
NewRequestUpdatedEpoch(id, clientId, body, tags, createdBy, ts) ==
    [id |-> id, client_id |-> clientId, title |-> Str(Trim(JSString(body.title))),
     details |-> StringOrNull(body.details), customer_name |-> StringOrNull(body.customerName),
     due_date |-> StringOrNull(body.dueDate), tags |-> tags, status |-> StNew,
     created_by |-> createdBy, created_at |-> ts, updated_at |-> 0]

\* the row that POST /requests and the public route insert
NewRequest(id, clientId, body, tags, createdBy, ts) ==
    [id |-> id, client_id |-> clientId, title |-> Str(Trim(JSString(body.title))),
     details |-> StringOrNull(body.details), customer_name |-> StringOrNull(body.customerName),
     due_date |-> StringOrNull(body.dueDate), tags |-> tags, status |-> StNew,
     created_by |-> createdBy, created_at |-> ts, updated_at |-> ts]

\* the test of the title without trim()
TitleMissingUntrimmed(title) == ~Truthy(title) \/ Len(JSString(title)) < 2

\* !title || String(title).trim().length < 2
TitleMissing(title) == ~Truthy(title) \/ Len(Trim(JSString(title))) < 2

\* app.post('/requests'): validation, the lookup of the client, the id and the time
PostRequests(p, body) ==
    /\ booted /\ Free(p)
    /\ IF body.clientId = Undefined
       THEN /\ Answer(p, "PostRequests", body, Fail(400, "clientId is required"))
            /\ UNCHANGED nextRequest
       ELSE IF ClientById(clients, body.clientId.id) = Undefined
       THEN /\ Answer(p, "PostRequests", body, Fail(400, "Invalid clientId"))
            /\ UNCHANGED nextRequest
       ELSE IF TitleMissing(body.title)
       THEN /\ Answer(p, "PostRequests", body, Fail(400, "Title is required"))
            /\ UNCHANGED nextRequest
       ELSE /\ nextRequest < MaxRequests
            /\ nextRequest' = nextRequest + 1
            /\ Await(p, "PostRequests", body, "insert",
                     [row |-> NewRequest(nextRequest + 1, body.clientId.id, body,
                                         StringOrNull(body.tags), UserId, now)])
    /\ UNCHANGED <<booted, now, clients, requests, nextClient, publicRate, passed, board>>

\* app.post('/requests'): the INSERT
PostRequestsInsert(p) ==
    /\ At(p, "PostRequests", "insert")
    /\ requests' = InsertRequest(requests, calls[p].loc.row)
    /\ Await(p, "PostRequests", calls[p].req, "fetch", calls[p].loc)
    /\ UNCHANGED <<booted, now, clients, nextClient, nextRequest, publicRate, passed, board>>

\* app.post('/requests'): the row is read back and returned
PostRequestsFetch(p) ==
    /\ At(p, "PostRequests", "fetch")
    /\ Answer(p, "PostRequests", calls[p].req,
              Reply(201, [request |-> RequestById(requests, calls[p].loc.row.id)]))
    /\ UNCHANGED <<booted, now, clients, requests, nextClient, nextRequest, publicRate, passed, board>>

\* the patch of a field that takes null for absent
PatchedNullKeeps(v, existing) ==
    IF v # Undefined /\ v # NULL THEN Str(JSString(v)) ELSE existing

\* x !== undefined ? (x === null ? null : String(x)) : existing
Patched(v, existing) ==
    IF v # Undefined THEN (IF v = NULL THEN NULL ELSE Str(JSString(v))) ELSE existing

\* next with a terminal lock on done: the status of a done request is kept
PatchNextDoneLocked(body, existing) ==
    [title |-> IF body.title # Undefined THEN Str(Trim(JSString(body.title))) ELSE existing.title,
     details |-> Patched(body.details, existing.details),
     customer_name |-> Patched(body.customerName, existing.customer_name),
     due_date |-> Patched(body.dueDate, existing.due_date),
     status |-> IF body.status # Undefined /\ existing.status # StDone
                THEN Str(JSString(body.status)) ELSE existing.status,
     tags |-> Patched(body.tags, existing.tags)]

\* the object next of app.patch('/requests/:id')
PatchNext(body, existing) ==
    [title |-> IF body.title # Undefined THEN Str(Trim(JSString(body.title))) ELSE existing.title,
     details |-> Patched(body.details, existing.details),
     customer_name |-> Patched(body.customerName, existing.customer_name),
     due_date |-> Patched(body.dueDate, existing.due_date),
     status |-> IF body.status # Undefined THEN Str(JSString(body.status)) ELSE existing.status,
     tags |-> Patched(body.tags, existing.tags)]

\* app.patch('/requests/:id'): the lookup, next, the check of the status
PatchRequests(p, id, body) ==
    /\ booted /\ Free(p)
    /\ LET req == [id |-> id, body |-> body]
           existing == RequestById(requests, id)
       IN  IF existing = Undefined
           THEN Answer(p, "PatchRequests", req, Fail(404, "Request not found"))
           ELSE IF PatchNext(body, existing).status \notin Statuses
           THEN Answer(p, "PatchRequests", req, Fail(400, "Invalid status"))
           ELSE Await(p, "PatchRequests", req, "update",
                      [next |-> PatchNext(body, existing), ts |-> now])
    /\ UNCHANGED <<booted, now, clients, requests, nextClient, nextRequest, publicRate, passed, board>>

\* app.patch('/requests/:id'): the UPDATE
PatchRequestsUpdate(p) ==
    /\ At(p, "PatchRequests", "update")
    /\ requests' = UpdateRequest(requests, calls[p].req.id, calls[p].loc.next, calls[p].loc.ts)
    /\ Await(p, "PatchRequests", calls[p].req, "fetch", calls[p].loc)
    /\ UNCHANGED <<booted, now, clients, nextClient, nextRequest, publicRate, passed, board>>

\* app.patch('/requests/:id'): the row is read back and returned
PatchRequestsFetch(p) ==
    /\ At(p, "PatchRequests", "fetch")
    /\ Answer(p, "PatchRequests", calls[p].req,
              Reply(200, [request |-> RequestById(requests, calls[p].req.id)]))
    /\ UNCHANGED <<booted, now, clients, requests, nextClient, nextRequest, publicRate, passed, board>>

\* app.delete('/requests/:id'): the lookup
DeleteRequests(p, id) ==
    /\ booted /\ Free(p)
    /\ IF RequestById(requests, id) = Undefined
       THEN Answer(p, "DeleteRequests", [id |-> id], Fail(404, "Request not found"))
       ELSE Await(p, "DeleteRequests", [id |-> id], "delete", <<>>)
    /\ UNCHANGED <<booted, now, clients, requests, nextClient, nextRequest, publicRate, passed, board>>

\* app.delete('/requests/:id'): the DELETE, then { ok: true }
DeleteRequestsDelete(p) ==
    /\ At(p, "DeleteRequests", "delete")
    /\ requests' = DeleteRequest(requests, calls[p].req.id)
    /\ Answer(p, "DeleteRequests", calls[p].req, Reply(200, [ok |-> TRUE]))
    /\ UNCHANGED <<booted, now, clients, nextClient, nextRequest, publicRate, passed, board>>

\* app.get('/reports/weekly'): the check of clientId before the counts
GetReportsWeeklyClient(cl, clientId) ==
    IF clientId = Undefined
    THEN Fail(400, "clientId is required")
    ELSE IF ClientById(cl, clientId.id) = Undefined
    THEN Fail(400, "Invalid clientId")
    ELSE Reply(200, [client |-> [id |-> clientId.id, name |-> cl[clientId.id].name]])

\* the characters of the model's texts in the order of their codes, which is
\* the order SQLite compares TEXT in
Chars ==
    <<" ", ",", "-", ".", "0", "1", "2", "3", "4", "5", "6", "7", "8", "9", ":",
      "A", "B", "D", "T", "U", "Z", "a", "b", "c", "d", "e", "f", "t", "u", "x", "y", "z">>

CharCode(c) == CHOOSE i \in DOMAIN Chars : Chars[i] = c

\* a < b for two TEXT values
RECURSIVE TextLess(_, _)
TextLess(a, b) ==
    IF b = <<>> THEN FALSE
    ELSE IF a = <<>> THEN TRUE
    ELSE IF Head(a) = Head(b) THEN TextLess(Tail(a), Tail(b))
    ELSE CharCode(Head(a)) < CharCode(Head(b))

\* the width of the texts that stand for toISOString() in comparisons with
\* other TEXT: the instant's digits, padded to a fixed width
IsoWidth == 10

RECURSIVE Pad(_, _)
Pad(s, w) == IF Len(s) >= w THEN s ELSE Pad(<<"0">> \o s, w)

\* new Date(t).toISOString()
Iso(t) == Pad(Digits(t), IsoWidth)

\* 7 * 24 * 60 * 60 * 1000 and 24 * 60 * 60 * 1000
WeekMs == 7 * 24 * 60 * 60 * 1000
DayMs == 24 * 60 * 60 * 1000

\* get('SELECT COUNT(1) ... WHERE client_id = ? AND created_at >= ?')
CountCreated(rq, clientId, weekAgo) ==
    Cardinality({r \in DOMAIN rq : rq[r].client_id = clientId /\ rq[r].created_at >= weekAgo})

\* the count of the done requests by the time they were created
CountCompletedByCreated(rq, clientId, weekAgo) ==
    Cardinality({r \in DOMAIN rq : /\ rq[r].client_id = clientId /\ rq[r].status = StDone
                                   /\ rq[r].created_at >= weekAgo})

\* get('SELECT COUNT(1) ... AND status = "done" AND updated_at >= ?')
CountCompleted(rq, clientId, weekAgo) ==
    Cardinality({r \in DOMAIN rq : /\ rq[r].client_id = clientId /\ rq[r].status = StDone
                                   /\ rq[r].updated_at >= weekAgo})

\* get('SELECT COUNT(1) ... AND status != "done" AND due_date IS NOT NULL AND due_date < ?')
CountOverdue(rq, clientId, t) ==
    Cardinality({r \in DOMAIN rq : /\ rq[r].client_id = clientId /\ rq[r].status # StDone
                                   /\ rq[r].due_date # NULL
                                   /\ TextLess(rq[r].due_date.s, Iso(t))})

\* the count with the cutoff included: updated_at <= ?
CountWaitingStaleInclusive(rq, clientId, cutoff) ==
    Cardinality({r \in DOMAIN rq : /\ rq[r].client_id = clientId /\ rq[r].status = StWaiting
                                   /\ rq[r].updated_at <= cutoff})

\* get('SELECT COUNT(1) ... AND status = "waiting" AND updated_at < ?')
CountWaitingStale(rq, clientId, cutoff) ==
    Cardinality({r \in DOMAIN rq : /\ rq[r].client_id = clientId /\ rq[r].status = StWaiting
                                   /\ rq[r].updated_at < cutoff})

\* all('SELECT tags FROM requests WHERE client_id = ? AND tags IS NOT NULL AND
\* tags != ""'): the statement has no ORDER BY, so the rows come in any order
TagRows(rq, clientId) ==
    LET hit == {r \in DOMAIN rq : /\ rq[r].client_id = clientId /\ rq[r].tags # NULL
                                  /\ rq[r].tags # Str(<<>>)}
    IN  {[i \in 1..Cardinality(hit) |-> rq[f[i]].tags] :
            f \in {g \in [1..Cardinality(hit) -> hit] : \A r \in hit : \E i \in DOMAIN g : g[i] = r}}

\* String.prototype.split(',')
RECURSIVE SplitComma(_)
SplitComma(s) ==
    IF \E i \in DOMAIN s : s[i] = ","
    THEN LET i == CHOOSE j \in DOMAIN s : s[j] = "," /\ \A k \in 1..(j - 1) : s[k] # ","
         IN  <<SubSeq(s, 1, i - 1)>> \o SplitComma(SubSeq(s, i + 1, Len(s)))
    ELSE <<s>>

\* String.prototype.toLowerCase
LowerChar(c) ==
    CASE c = "A" -> "a" [] c = "B" -> "b" [] c = "D" -> "d" [] c = "T" -> "t"
      [] c = "U" -> "u" [] c = "Z" -> "z" [] OTHER -> c

LowerCase(s) == [i \in DOMAIN s |-> LowerChar(s[i])]

NonEmpty(t) == t # <<>>

\* String(r.tags).split(',').map((t) => t.trim().toLowerCase()).filter(Boolean)
TagParts(tags) ==
    LET parts == SplitComma(JSString(tags))
    IN  SelectSeq([i \in DOMAIN parts |-> LowerCase(Trim(parts[i]))], NonEmpty)

\* the tokens of all rows, in the order of the scan
RECURSIVE AllParts(_)
AllParts(rows) == IF rows = <<>> THEN <<>> ELSE TagParts(Head(rows)) \o AllParts(Tail(rows))

\* the keys of freq in the order they were first assigned
RECURSIVE FirstSeen(_)
FirstSeen(parts) ==
    IF parts = <<>> THEN <<>>
    ELSE LET before == FirstSeen(SubSeq(parts, 1, Len(parts) - 1))
             last == parts[Len(parts)]
         IN  IF \E i \in DOMAIN before : before[i] = last THEN before ELSE Append(before, last)

\* a property key that is an array index (the canonical text of an integer
\* below 2^32 - 1): Object.entries lists these first, in ascending order
IsIndexKey(k) ==
    /\ k # <<>>
    /\ \A i \in DOMAIN k : k[i] \in {"0", "1", "2", "3", "4", "5", "6", "7", "8", "9"}
    /\ (Len(k) = 1 \/ k[1] # "0")
    /\ Len(k) <= 10
    /\ Len(k) = 10 => TextLess(k, <<"4", "2", "9", "4", "9", "6", "7", "2", "9", "5">>)

IsNameKey(k) == ~IsIndexKey(k)

\* a < b for the numbers two index keys denote
IndexLess(a, b) == Len(a) < Len(b) \/ (Len(a) = Len(b) /\ TextLess(a, b))

RECURSIVE Ascending(_)
Ascending(keys) ==
    IF keys = <<>> THEN <<>>
    ELSE LET i == CHOOSE j \in DOMAIN keys : \A k \in DOMAIN keys : ~IndexLess(keys[k], keys[j])
         IN  <<keys[i]>> \o Ascending(SubSeq(keys, 1, i - 1) \o SubSeq(keys, i + 1, Len(keys)))

\* Object.entries(freq): the keys in property order
EntryKeys(parts) ==
    Ascending(SelectSeq(FirstSeen(parts), IsIndexKey)) \o SelectSeq(FirstSeen(parts), IsNameKey)

Occurrences(parts, k) == Cardinality({i \in DOMAIN parts : parts[i] = k})

\* .sort((a, b) => b[1] - a[1]): a stable sort by count, descending
RECURSIVE ByCount(_, _)
ByCount(keys, parts) ==
    IF keys = <<>> THEN <<>>
    ELSE LET i == CHOOSE j \in DOMAIN keys :
                      /\ \A k \in DOMAIN keys : Occurrences(parts, keys[j]) >= Occurrences(parts, keys[k])
                      /\ \A k \in 1..(j - 1) : Occurrences(parts, keys[k]) < Occurrences(parts, keys[j])
         IN  <<keys[i]>> \o ByCount(SubSeq(keys, 1, i - 1) \o SubSeq(keys, i + 1, Len(keys)), parts)

\* the topTags of the weekly report for the rows of one scan
TopTags(rows) ==
    LET parts == AllParts(rows)
        sorted == ByCount(EntryKeys(parts), parts)
        top == SubSeq(sorted, 1, IF Len(sorted) < 5 THEN Len(sorted) ELSE 5)
    IN  [i \in DOMAIN top |-> [tag |-> Str(top[i]), count |-> Occurrences(parts, top[i])]]

\* the number a text of digits denotes
RECURSIVE DigitsValue(_)
DigitsValue(s) ==
    IF s = <<>> THEN 0
    ELSE 10 * DigitsValue(SubSeq(s, 1, Len(s) - 1))
           + (CHOOSE d \in 0..9 : Digit(d) = s[Len(s)])

NaN == [k |-> "NaN"]

\* new Date(text).getTime(): the instant of a text in the form of
\* toISOString(), NaN for a text Date cannot parse (the other texts followed
\* here: the empty text, a blank, a word)
DateGetTime(text) ==
    IF Len(text) = IsoWidth /\ \A i \in DOMAIN text : \E d \in 0..9 : Digit(d) = text[i]
    THEN Num(DigitsValue(text))
    ELSE NaN

\* the dashboard's isOverdue(r) and the board card's isOverdue, with t for
\* Date.now()
isOverdue(r, t) ==
    IF ~Truthy(r.due_date) THEN FALSE
    ELSE IF DateGetTime(r.due_date.s) = NaN THEN FALSE
    ELSE r.status # StDone /\ DateGetTime(r.due_date.s).n < t

\* the dashboard's isWaitingStale(r), with t for Date.now()
isWaitingStale(r, t) ==
    IF r.status # StWaiting THEN FALSE ELSE t - r.updated_at > 24 * 60 * 60 * 1000

\* the filter on whatever status is given
ListStatusUnchecked(status) ==
    IF Truthy(status) THEN Str(JSString(status)) ELSE Undefined

\* status && ['new', 'doing', 'waiting', 'done'].includes(String(status)): the
\* status the statement filters on, or Undefined when it does not
ListStatus(status) ==
    IF Truthy(status) /\ Str(JSString(status)) \in Statuses
    THEN Str(JSString(status)) ELSE Undefined

\* q && String(q).trim(): the text between the % of the LIKE pattern, or
\* Undefined when the statement has no LIKE
ListQuery(q) ==
    IF Truthy(q) /\ Trim(JSString(q)) # <<>> THEN Str(Trim(JSString(q))) ELSE Undefined

\* column LIKE '%pat%' for a pattern without wildcards: NULL matches nothing,
\* letters match in either case
Like(v, pat) ==
    /\ v # NULL
    /\ \E i \in 1..(Len(v.s) - Len(pat) + 1) :
         LowerCase(SubSeq(v.s, i, i + Len(pat) - 1)) = LowerCase(pat)

\* the WHERE clause of app.get('/requests')
ListWhere(r, clientId, status, q) ==
    /\ r.client_id = clientId
    /\ status # Undefined => r.status = status
    /\ q # Undefined => (Like(r.title, q.s) \/ Like(r.customer_name, q.s) \/ Like(r.tags, q.s))

\* all('SELECT * FROM requests WHERE ... ORDER BY updated_at DESC'): the rows in
\* every order the statement allows (rows of one updated_at come in any order)
SelectRequests(rq, clientId, status, q) ==
    LET hit == {r \in DOMAIN rq : ListWhere(rq[r], clientId, status, q)}
        n == Cardinality(hit)
    IN  {[i \in 1..n |-> rq[f[i]]] :
            f \in {g \in [1..n -> hit] :
                     /\ \A r \in hit : \E i \in 1..n : g[i] = r
                     /\ \A i, j \in 1..n : i < j => rq[g[i]].updated_at >= rq[g[j]].updated_at}}

\* app.get('/requests'): the check of clientId and the WHERE clause
GetRequests(p, clientId, status, q) ==
    /\ booted /\ Free(p)
    /\ LET req == [clientId |-> clientId, status |-> status, q |-> q]
       IN  IF clientId = Undefined
           THEN Answer(p, "GetRequests", req, Fail(400, "clientId is required"))
           ELSE Await(p, "GetRequests", req, "select",
                      [status |-> ListStatus(status), q |-> ListQuery(q)])
    /\ UNCHANGED <<booted, now, clients, requests, nextClient, nextRequest, publicRate, passed, board>>

\* app.get('/requests'): the SELECT and the answer
GetRequestsSelect(p) ==
    /\ At(p, "GetRequests", "select")
    /\ \E rows \in SelectRequests(requests, calls[p].req.clientId.id,
                                  calls[p].loc.status, calls[p].loc.q) :
         Answer(p, "GetRequests", calls[p].req, Reply(200, [requests |-> rows]))
    /\ UNCHANGED <<booted, now, clients, requests, nextClient, nextRequest, publicRate, passed, board>>

\* app.get('/reports/weekly'): the check of clientId, the lookup of the client
\* and Date.now()
GetReportsWeekly(p, clientId) ==
    /\ booted /\ Free(p)
    /\ LET req == [clientId |-> clientId]
           first == GetReportsWeeklyClient(clients, clientId)
       IN  IF first.status # 200
           THEN Answer(p, "GetReportsWeekly", req, first)
           ELSE Await(p, "GetReportsWeekly", req, "created",
                      [client |-> first.body.client, now |-> now, created |-> 0,
                       completed |-> 0, overdue |-> 0, waitingStale |-> 0])
    /\ UNCHANGED <<booted, now, clients, requests, nextClient, nextRequest, publicRate, passed, board>>

\* app.get('/reports/weekly'): the count of the requests created in the window
GetReportsWeeklyCreated(p) ==
    /\ At(p, "GetReportsWeekly", "created")
    /\ Await(p, "GetReportsWeekly", calls[p].req, "completed",
             [calls[p].loc EXCEPT !.created =
                 CountCreated(requests, calls[p].req.clientId.id, calls[p].loc.now - WeekMs)])
    /\ UNCHANGED <<booted, now, clients, requests, nextClient, nextRequest, publicRate, passed, board>>

\* app.get('/reports/weekly'): the count of the requests completed in the window
GetReportsWeeklyCompleted(p) ==
    /\ At(p, "GetReportsWeekly", "completed")
    /\ Await(p, "GetReportsWeekly", calls[p].req, "overdue",
             [calls[p].loc EXCEPT !.completed =
                 CountCompleted(requests, calls[p].req.clientId.id, calls[p].loc.now - WeekMs)])
    /\ UNCHANGED <<booted, now, clients, requests, nextClient, nextRequest, publicRate, passed, board>>

\* app.get('/reports/weekly'): the count of the overdue requests
GetReportsWeeklyOverdue(p) ==
    /\ At(p, "GetReportsWeekly", "overdue")
    /\ Await(p, "GetReportsWeekly", calls[p].req, "waitingStale",
             [calls[p].loc EXCEPT !.overdue =
                 CountOverdue(requests, calls[p].req.clientId.id, calls[p].loc.now)])
    /\ UNCHANGED <<booted, now, clients, requests, nextClient, nextRequest, publicRate, passed, board>>

\* app.get('/reports/weekly'): the count of the requests waiting for over 24 hours
GetReportsWeeklyWaitingStale(p) ==
    /\ At(p, "GetReportsWeekly", "waitingStale")
    /\ Await(p, "GetReportsWeekly", calls[p].req, "tags",
             [calls[p].loc EXCEPT !.waitingStale =
                 CountWaitingStale(requests, calls[p].req.clientId.id, calls[p].loc.now - DayMs)])
    /\ UNCHANGED <<booted, now, clients, requests, nextClient, nextRequest, publicRate, passed, board>>

\* app.get('/reports/weekly'): the scan of the tags, then the answer
GetReportsWeeklyTags(p) ==
    /\ At(p, "GetReportsWeekly", "tags")
    /\ \E rows \in TagRows(requests, calls[p].req.clientId.id) :
         Answer(p, "GetReportsWeekly", calls[p].req,
                Reply(200, [client |-> calls[p].loc.client,
                            window |-> [days |-> 7],
                            stats |-> [created |-> calls[p].loc.created,
                                       completed |-> calls[p].loc.completed,
                                       overdue |-> calls[p].loc.overdue,
                                       waiting24hPlus |-> calls[p].loc.waitingStale],
                            topTags |-> TopTags(rows)]))
    /\ UNCHANGED <<booted, now, clients, requests, nextClient, nextRequest, publicRate, passed, board>>

----------------------------------------------------------------------------
(* Public Intake Gate *)

windowMs == 60 * 1000
max == 20

\* the limiter that compares the count before it counts the call
PublicRateLimitBeforeIncrement(rate, ip, t) ==
    LET item == IF rate[ip] # Absent THEN rate[ip] ELSE [count |-> 0, resetAt |-> t + windowMs]
        cur == IF t > item.resetAt THEN [count |-> 0, resetAt |-> t + windowMs] ELSE item
        new == [cur EXCEPT !.count = cur.count + 1]
    IN  [rate |-> [rate EXCEPT ![ip] = new],
         admitted |-> cur.count <= max]

\* the limiter that opens a new window at the reset time itself
PublicRateLimitResetsAtExpiry(rate, ip, t) ==
    LET item == IF rate[ip] # Absent THEN rate[ip] ELSE [count |-> 0, resetAt |-> t + windowMs]
        cur == IF t >= item.resetAt THEN [count |-> 0, resetAt |-> t + windowMs] ELSE item
        new == [cur EXCEPT !.count = cur.count + 1]
    IN  [rate |-> [rate EXCEPT ![ip] = new],
         admitted |-> new.count <= max]

\* publicRateLimit: the Map after the call, and whether next() is called
PublicRateLimit(rate, ip, t) ==
    LET item == IF rate[ip] # Absent THEN rate[ip] ELSE [count |-> 0, resetAt |-> t + windowMs]
        cur == IF t > item.resetAt THEN [count |-> 0, resetAt |-> t + windowMs] ELSE item
        new == [cur EXCEPT !.count = cur.count + 1]
    IN  [rate |-> [rate EXCEPT ![ip] = new],
         admitted |-> new.count <= max]

TooMany == Fail(429, "Too many requests, try again shortly")

\* the address that floods the public routes; the others call a few times
Flooder == "10.0.0.2"

\* the calls the flooder makes in one window: the flood lasts for the first
\* window and exceeds max; afterwards one call shows the window has ended
Budget ==
    IF now < windowMs THEN max + MaxPublicCalls - 1 ELSE 1

\* after a flood of full size one more call comes at the reset time itself
LastCall(ip) ==
    now = publicRate[ip].resetAt /\ publicRate[ip].count = max + MaxPublicCalls - 1

\* the public calls of an address are bounded in the model: the flooder's in
\* each window, the other addresses' in all
MayCall(ip) ==
    IF ip # Flooder THEN Len(passed[ip]) < MaxPublicCalls
    ELSE IF publicRate[ip] = Absent THEN TRUE
    ELSE IF now > publicRate[ip].resetAt THEN TRUE
    ELSE publicRate[ip].count < Budget \/ LastCall(ip)

\* the reply that tells an archived client from an unknown code
GetPublicClientReplyArchived(cl, clientCode) ==
    LET row == ClientByCode(cl, clientCode)
    IN  IF row = Undefined
        THEN Fail(404, "Client not found")
        ELSE IF row.archived # 0
        THEN Fail(404, "Client archived")
        ELSE Reply(200, [client |-> [id |-> row.id, name |-> row.name,
                                     clientCode |-> row.client_code, pinRequired |-> TRUE]])

\* the reply whose pinRequired tells whether a PIN is stored
GetPublicClientReplyPinFlag(cl, clientCode) ==
    LET row == ClientByCode(cl, clientCode)
    IN  IF row = Undefined
        THEN Fail(404, "Client not found")
        ELSE IF row.archived # 0
        THEN Fail(404, "Client not found")
        ELSE Reply(200, [client |-> [id |-> row.id, name |-> row.name,
                                     clientCode |-> row.client_code,
                                     pinRequired |-> Truthy(row.customer_pin)]])

\* app.get('/public/clients/by-code/:clientCode'), once admitted
GetPublicClientReply(cl, clientCode) ==
    LET row == ClientByCode(cl, clientCode)
    IN  IF row = Undefined
        THEN Fail(404, "Client not found")
        ELSE IF row.archived # 0
        THEN Fail(404, "Client not found")
        ELSE Reply(200, [client |-> [id |-> row.id, name |-> row.name,
                                     clientCode |-> row.client_code, pinRequired |-> TRUE]])

GetPublicClient(p, ip, clientCode) ==
    /\ booted /\ Free(p) /\ MayCall(ip)
    /\ LET lim == PublicRateLimit(publicRate, ip, now)
       IN  /\ publicRate' = lim.rate
           /\ passed' = IF lim.admitted THEN [passed EXCEPT ![ip] = Append(@, now)] ELSE passed
           /\ Answer(p, "GetPublicClient", [ip |-> ip, clientCode |-> clientCode],
                     IF lim.admitted THEN GetPublicClientReply(clients, clientCode) ELSE TooMany)
    /\ UNCHANGED <<booted, now, clients, requests, nextClient, nextRequest, board>>

\* the checks with the title validated before the PIN
PostPublicRequestsCheckTitleFirst(cl, clientCode, body) ==
    LET client == ClientByCode(cl, clientCode)
    IN  IF client = Undefined THEN Fail(404, "Client not found")
        ELSE IF client.archived # 0 THEN Fail(404, "Client not found")
        ELSE IF TitleMissing(body.title) THEN Fail(400, "Title is required")
        ELSE IF ~Truthy(client.customer_pin) THEN Fail(403, "PIN is required")
        ELSE IF JSString(IF Truthy(body.pin) THEN body.pin ELSE Str(<<>>))
                    # JSString(client.customer_pin)
        THEN Fail(403, "Invalid PIN")
        ELSE Undefined

\* the checks of the public submit route before the INSERT: the reply that ends
\* the call, or Undefined when the request is to be stored
PostPublicRequestsCheck(cl, clientCode, body) ==
    LET client == ClientByCode(cl, clientCode)
    IN  IF client = Undefined THEN Fail(404, "Client not found")
        ELSE IF client.archived # 0 THEN Fail(404, "Client not found")
        ELSE IF ~Truthy(client.customer_pin) THEN Fail(403, "PIN is required")
        ELSE IF JSString(IF Truthy(body.pin) THEN body.pin ELSE Str(<<>>))
                    # JSString(client.customer_pin)
        THEN Fail(403, "Invalid PIN")
        ELSE IF TitleMissing(body.title) THEN Fail(400, "Title is required")
        ELSE Undefined

\* app.post('/public/clients/by-code/:clientCode/requests'): the rate limit, the
\* lookup of the client, the PIN and the title, the id and the time
PostPublicRequests(p, ip, clientCode, body) ==
    /\ booted /\ Free(p) /\ MayCall(ip)
    /\ LET lim == PublicRateLimit(publicRate, ip, now)
           req == [ip |-> ip, clientCode |-> clientCode, body |-> body]
           check == PostPublicRequestsCheck(clients, clientCode, body)
       IN  /\ publicRate' = lim.rate
           /\ passed' = IF lim.admitted THEN [passed EXCEPT ![ip] = Append(@, now)] ELSE passed
           /\ IF ~lim.admitted
              THEN /\ Answer(p, "PostPublicRequests", req, TooMany)
                   /\ UNCHANGED nextRequest
              ELSE IF check # Undefined
              THEN /\ Answer(p, "PostPublicRequests", req, check)
                   /\ UNCHANGED nextRequest
              ELSE /\ nextRequest < MaxRequests
                   /\ nextRequest' = nextRequest + 1
                   /\ Await(p, "PostPublicRequests", req, "insert",
                            [row |-> NewRequest(nextRequest + 1,
                                                ClientByCode(clients, clientCode).id,
                                                body, NULL, OwnerLink, now)])
    /\ UNCHANGED <<booted, now, clients, requests, nextClient, board>>

\* app.post('/public/clients/by-code/:clientCode/requests'): the INSERT
PostPublicRequestsInsert(p) ==
    /\ At(p, "PostPublicRequests", "insert")
    /\ requests' = InsertRequest(requests, calls[p].loc.row)
    /\ Await(p, "PostPublicRequests", calls[p].req, "fetch", calls[p].loc)
    /\ UNCHANGED <<booted, now, clients, nextClient, nextRequest, publicRate, passed, board>>

\* app.post('/public/clients/by-code/:clientCode/requests'): the row is read back
PostPublicRequestsFetch(p) ==
    /\ At(p, "PostPublicRequests", "fetch")
    /\ Answer(p, "PostPublicRequests", calls[p].req,
              Reply(201, [request |-> RequestById(requests, calls[p].loc.row.id)]))
    /\ UNCHANGED <<booted, now, clients, requests, nextClient, nextRequest, publicRate, passed, board>>

----------------------------------------------------------------------------
(* The callers' inputs *)

Callers == {"10.0.0.1"}

\* the codes a public caller tries: the generator's and one no client has
PublicCodes == RandCodes \cup {Str(<<"z">>)}

TitleOk == Str(<<" ", "a", "b">>)
Titles == {Undefined, Str(<<"a", " ">>), TitleOk}

\* the PINs a public caller submits: none, every PIN genPin yields, one as a number
SubmitPins == {Undefined, Num(100000)} \cup {genPin(r) : r \in RandPin}

SubmitBodies ==
    [title : Titles, details : {Undefined}, customerName : {Undefined},
     dueDate : {Undefined}, pin : SubmitPins]

CreateBodies ==
    [clientId : {Undefined} \cup {Ref(id) : id \in AnyClientId}, title : Titles,
     details : {Undefined}, customerName : {Undefined}, dueDate : {Undefined},
     tags : {Undefined, Str(<<"t">>)}]

\* the bodies of the calls whose title, tags and PIN are not in question
PlainCreates == {b \in CreateBodies : b.clientId # Undefined /\ b.title = TitleOk /\ b.tags = Undefined}
PlainSubmits == {b \in SubmitBodies : b.title = TitleOk /\ b.pin \in {genPin(r) : r \in RandPin}}

PatchStatuses == {Undefined, NULL, Str(<<"x">>)} \cup Statuses

PatchBodies ==
    [status : PatchStatuses, title : {Undefined}, details : {Undefined},
     customerName : {Undefined}, dueDate : {Undefined}, tags : {Undefined, NULL}]

\* the bodies of a move: { status } alone
StatusPatches == {b \in PatchBodies : b.tags = Undefined}

\* creates with every optional field given, and with a number for a title
FullCreates ==
    [clientId : {Ref(1)}, title : {TitleOk, Num(12)}, details : {Str(<<"d">>)},
     customerName : {Str(<<"c">>)}, dueDate : {Str(<<"9">>)}, tags : {Str(<<"t">>)}]

\* the body of an Edit that names no field
NoPatch ==
    [status |-> Undefined, title |-> Undefined, details |-> Undefined,
     customerName |-> Undefined, dueDate |-> Undefined, tags |-> Undefined,
     id |-> Undefined, clientId |-> Undefined, createdBy |-> Undefined,
     createdAt |-> Undefined]

\* the bodies of partial Edits: a status, tags, nulls for optional fields, a
\* blank title, and a body that names only the fields no Edit is to change
EditBodies ==
    {[NoPatch EXCEPT !.status = StDone], [NoPatch EXCEPT !.status = StWaiting],
     [NoPatch EXCEPT !.tags = NULL], [NoPatch EXCEPT !.tags = Str(<<"u">>)],
     [NoPatch EXCEPT !.details = NULL],
     [NoPatch EXCEPT !.customerName = NULL, !.dueDate = NULL],
     [NoPatch EXCEPT !.title = Str(<<" ">>)],
     [NoPatch EXCEPT !.id = Ref(MaxRequests + 1), !.clientId = Ref(MaxClients),
                     !.createdBy = Str(<<"x">>), !.createdAt = Num(9)]}

\* the requests an Edit addresses: the first created and one never created
EditTargets == {1, MaxRequests + 1}

\* the Edits and the Creates of the calls that are in flight together
RaceEdits == {[NoPatch EXCEPT !.status = StDone], [NoPatch EXCEPT !.tags = NULL]}
RaceCreates == {b \in PlainCreates : b.clientId = Ref(1)}

\* the calls before a weekly report: creates for two clients, with tags for the
\* first, and moves to done and to waiting
ReportCreates ==
    {b \in CreateBodies : /\ b.title = TitleOk
                          /\ \/ b.clientId = Ref(1) /\ b.tags # Undefined
                             \/ b.clientId = Ref(2) /\ b.tags = Undefined}
ReportEdits == {[NoPatch EXCEPT !.status = StDone], [NoPatch EXCEPT !.status = StWaiting]}

\* the instants of a report: 24 hours and 7 days after start-up, and the
\* millisecond after each
ReportInstants == {DayMs, DayMs + 1, WeekMs, WeekMs + 1}

----------------------------------------------------------------------------
(* The board page.  Each of its calls travels on a connection p; the server's
   handler for it runs in slot p, and the page takes the answer when it arrives *)

\* the client the board has selected, and the page's state with one field changed
selectedClientId == Ref(1)

Awaiting(p, what) == [board EXCEPT !.awaits[p] = what]

\* loadRequests(clientId, opts) with no search and the filter 'all': the call
\* is sent
loadRequests(p) ==
    /\ booted /\ Free(p) /\ board.awaits[p] = Quiet
    /\ board' = Awaiting(p, [k |-> "load"])
    /\ calls' = [calls EXCEPT ![p] = Idle]
    /\ UNCHANGED <<booted, now, clients, requests, nextClient, nextRequest, publicRate, passed>>

\* the server takes the call of loadRequests
loadRequestsGet(p) ==
    /\ board.awaits[p] = [k |-> "load"] /\ calls[p] = Idle
    /\ GetRequests(p, selectedClientId, Undefined, Undefined)

\* loadRequests: the answer has arrived (setRequests(data.requests)), or the
\* call has failed (setError)
loadRequestsSettled(p, ok) ==
    /\ board.awaits[p] = [k |-> "load"] /\ Answered(p, "GetRequests")
    /\ LET rows == calls[p].res.body.requests
           after == IF ok /\ calls[p].res.status = 200
                    THEN [id \in {rows[i].id : i \in DOMAIN rows} |->
                             rows[CHOOSE i \in DOMAIN rows : rows[i].id = id]]
                    ELSE board.requests
       IN  board' = [requests |-> after, awaits |-> [board.awaits EXCEPT ![p] = Quiet]]
    /\ calls' = [calls EXCEPT ![p] = Idle]
    /\ UNCHANGED <<booted, now, clients, requests, nextClient, nextRequest, publicRate, passed>>

\* move(id, status): the optimistic setRequests, and the PATCH is sent
move(p, id, status) ==
    /\ booted /\ Free(p) /\ board.awaits[p] = Quiet
    /\ id \in DOMAIN board.requests
    /\ board' = [requests |-> [r \in DOMAIN board.requests |->
                                  IF r = id THEN [board.requests[r] EXCEPT !.status = status]
                                  ELSE board.requests[r]],
                 awaits |-> [board.awaits EXCEPT
                                ![p] = [k |-> "move", id |-> id, status |-> status]]]
    /\ calls' = [calls EXCEPT ![p] = Idle]
    /\ UNCHANGED <<booted, now, clients, requests, nextClient, nextRequest, publicRate, passed>>

\* the server takes the PATCH of move, whose body is { status }
movePatch(p) ==
    /\ board.awaits[p].k = "move" /\ calls[p] = Idle
    /\ PatchRequests(p, board.awaits[p].id, [NoPatch EXCEPT !.status = board.awaits[p].status])

\* move: the answer has arrived and its request replaces the card, or the call
\* has failed (the answer was not ok, or never arrived) and loadRequests is
\* awaited
moveSettled(p, ok) ==
    /\ board.awaits[p].k = "move" /\ Answered(p, "PatchRequests")
    /\ IF ok /\ calls[p].res.status = 200
       THEN board' = [requests |-> [r \in DOMAIN board.requests |->
                                       IF r = board.awaits[p].id THEN calls[p].res.body.request
                                       ELSE board.requests[r]],
                      awaits |-> [board.awaits EXCEPT ![p] = Quiet]]
       ELSE board' = Awaiting(p, [k |-> "load"])
    /\ calls' = [calls EXCEPT ![p] = Idle]
    /\ UNCHANGED <<booted, now, clients, requests, nextClient, nextRequest, publicRate, passed>>

----------------------------------------------------------------------------
(* Specifications *)

\* Client Directory: the operator's calls on clients and the public lookup,
\* one call at a time
Next ==
    \/ Start
    \/ \E name \in Names : PostClients(1, name)
    \/ PostClientsCode(1) \/ PostClientsInsert(1) \/ PostClientsFetch(1)
    \/ \E id \in AnyClientId : PostClientsRotatePin(1, id)
    \/ PostClientsRotatePinUpdate(1) \/ PostClientsRotatePinFetch(1)
    \/ \E id \in AnyClientId : GetClientsPin(1, id)
    \/ \E b \in BOOLEAN : GetClients(1, b)
    \/ \E id \in AnyClientId, flag \in {0, 1} : PostClientsArchive(1, id, flag)
    \/ PostClientsArchiveUpdate(1) \/ PostClientsArchiveFetch(1)
    \/ \E id \in AnyClientId : DeleteClients(1, id)
    \/ DeleteClientsRequests(1) \/ DeleteClientsClient(1)
    \/ \E ip \in Callers, code \in PublicCodes : GetPublicClient(1, ip, code)

Spec == Init /\ [][Next]_vars

\* hard delete of clients that own requests, one call at a time
NextDelete ==
    \/ Start
    \/ \E name \in Names : PostClients(1, name)
    \/ PostClientsCode(1) \/ PostClientsInsert(1) \/ PostClientsFetch(1)
    \/ \E body \in PlainCreates : PostRequests(1, body)
    \/ PostRequestsInsert(1) \/ PostRequestsFetch(1)
    \/ \E id \in AnyClientId : DeleteClients(1, id)
    \/ DeleteClientsRequests(1) \/ DeleteClientsClient(1)

SpecDelete == Init /\ [][NextDelete]_vars

\* Public Intake Gate: the public calls and what the operator does to the
\* client they address, one call at a time
NextIntake ==
    \/ Start
    \/ Tick
    \/ \E id \in AnyClientId : PostClientsRotatePin(1, id)
    \/ PostClientsRotatePinUpdate(1) \/ PostClientsRotatePinFetch(1)
    \/ \E id \in AnyClientId, flag \in {0, 1} : PostClientsArchive(1, id, flag)
    \/ PostClientsArchiveUpdate(1) \/ PostClientsArchiveFetch(1)
    \/ \E ip \in Callers, code \in PublicCodes : GetPublicClient(1, ip, code)
    \/ \E ip \in Callers, code \in PublicCodes, body \in SubmitBodies :
         PostPublicRequests(1, ip, code, body)
    \/ PostPublicRequestsInsert(1) \/ PostPublicRequestsFetch(1)

SpecIntake == Init /\ [][NextIntake]_vars

\* Request Lifecycle Engine: create, move between statuses and delete, one
\* call at a time
NextEdit ==
    \/ Start
    \/ \E body \in PlainCreates : PostRequests(1, body)
    \/ PostRequestsInsert(1) \/ PostRequestsFetch(1)
    \/ \E id \in AnyRequestId, body \in StatusPatches : PatchRequests(1, id, body)
    \/ PatchRequestsUpdate(1) \/ PatchRequestsFetch(1)
    \/ \E id \in AnyRequestId : DeleteRequests(1, id)
    \/ DeleteRequestsDelete(1)

SpecEdit == Init /\ [][NextEdit]_vars

\* hard delete of a client while requests are created for it: two calls in
\* flight, their statements interleaved
NextConc ==
    \/ Start
    \/ \E p \in Procs :
         \/ \E id \in AnyClientId : PostClientsRotatePin(p, id)
         \/ PostClientsRotatePinUpdate(p) \/ PostClientsRotatePinFetch(p)
         \/ \E id \in AnyClientId : DeleteClients(p, id)
         \/ DeleteClientsRequests(p) \/ DeleteClientsClient(p)
         \/ \E body \in PlainCreates : PostRequests(p, body)
         \/ PostRequestsInsert(p) \/ PostRequestsFetch(p)
         \/ \E ip \in Callers, code \in RandCodes, body \in PlainSubmits :
              PostPublicRequests(p, ip, code, body)
         \/ PostPublicRequestsInsert(p) \/ PostPublicRequestsFetch(p)

SpecConc == Init /\ [][NextConc]_vars

\* hard delete of a client when the store may reject a statement
NextFail ==
    \/ Start
    \/ \E name \in Names : PostClients(1, name)
    \/ PostClientsCode(1) \/ PostClientsInsert(1) \/ PostClientsFetch(1)
    \/ \E body \in PlainCreates : PostRequests(1, body)
    \/ PostRequestsInsert(1) \/ PostRequestsFetch(1)
    \/ \E id \in AnyClientId : DeleteClients(1, id)
    \/ DeleteClientsRequests(1) \/ DeleteClientsClient(1)
    \/ DeleteClientsRejected(1)

SpecFail == Init /\ [][NextFail]_vars

\* the instants of the flood: the last of a window begun at 0 and the first after it
RateInstants == {windowMs, windowMs + 1}

\* the one submission the callers of the flood send, and the code they address
FloodCode == Str(<<"a">>)
FloodSubmits == {b \in PlainSubmits : b.pin = genPin(0)}

\* the address that calls a few times while the flood lasts
Visitor == "10.0.0.1"

\* Public Intake Gate under load: connection 1 carries the flooder's calls,
\* connection 2 the visitor's lookups and the operator's issue of a PIN; the
\* calls of the two connections interleave
NextRate ==
    \/ Start
    \/ Advance(RateInstants)
    \/ PostClientsRotatePin(2, 1)
    \/ PostClientsRotatePinUpdate(2) \/ PostClientsRotatePinFetch(2)
    \/ GetPublicClient(1, Flooder, FloodCode)
    \/ GetPublicClient(2, Visitor, FloodCode)
    \/ \E body \in FloodSubmits : PostPublicRequests(1, Flooder, FloodCode, body)
    \/ PostPublicRequestsInsert(1) \/ PostPublicRequestsFetch(1)

SpecRate == Init /\ [][NextRate]_vars

\* operator Create with every kind of body, while clients are deleted and
\* time passes, one call at a time
NextCreate ==
    \/ Start
    \/ Tick
    \/ \E body \in CreateBodies \cup FullCreates : PostRequests(1, body)
    \/ PostRequestsInsert(1) \/ PostRequestsFetch(1)
    \/ \E id \in AnyClientId : DeleteClients(1, id)
    \/ DeleteClientsRequests(1) \/ DeleteClientsClient(1)

SpecCreate == Init /\ [][NextCreate]_vars

\* partial Edits of a request created with every field, while other requests
\* are created and time passes, one call at a time
NextPatch ==
    \/ Start
    \/ Tick
    \/ \E body \in {b \in FullCreates : b.title = TitleOk} : PostRequests(1, body)
    \/ PostRequestsInsert(1) \/ PostRequestsFetch(1)
    \/ \E id \in EditTargets, body \in EditBodies : PatchRequests(1, id, body)
    \/ PatchRequestsUpdate(1) \/ PatchRequestsFetch(1)

SpecPatch == Init /\ [][NextPatch]_vars

\* Edits and Deletes of one request and Creates of others while time passes:
\* two calls in flight, their statements interleaved
NextRace ==
    \/ Start
    \/ Tick
    \/ \E p \in Procs :
         \/ \E body \in RaceCreates : PostRequests(p, body)
         \/ PostRequestsInsert(p) \/ PostRequestsFetch(p)
         \/ \E id \in EditTargets, body \in RaceEdits : PatchRequests(p, id, body)
         \/ PatchRequestsUpdate(p) \/ PatchRequestsFetch(p)
         \/ \E id \in EditTargets : DeleteRequests(p, id)
         \/ DeleteRequestsDelete(p)

SpecRace == Init /\ [][NextRace]_vars

\* Client Directory: two creates of clients in flight, their lookups of the
\* code and their INSERTs interleaved
NextCodes ==
    \/ Start
    \/ \E p \in Procs :
         \/ \E name \in Names : PostClients(p, name)
         \/ PostClientsCode(p) \/ PostClientsInsert(p) \/ PostClientsFetch(p)

SpecCodes == Init /\ [][NextCodes]_vars

\* Weekly Report: a second client and the requests of the two clients are
\* created at start-up, the requests are moved while days pass, and the report
\* is asked for, one call at a time
NextReport ==
    \/ Start
    \/ Advance(ReportInstants)
    \/ now = 0 /\ nextClient < 2 /\ PostClients(1, Str(<<" ", "x", "y">>))
    \/ PostClientsCode(1) \/ PostClientsInsert(1) \/ PostClientsFetch(1)
    \/ now = 0 /\ \E body \in ReportCreates : PostRequests(1, body)
    \/ PostRequestsInsert(1) \/ PostRequestsFetch(1)
    \/ \E id \in EditTargets, body \in ReportEdits : PatchRequests(1, id, body)
    \/ PatchRequestsUpdate(1) \/ PatchRequestsFetch(1)
    \/ \E clientId \in {Undefined} \cup {Ref(id) : id \in AnyClientId} :
         GetReportsWeekly(1, clientId)
    \/ GetReportsWeeklyCreated(1) \/ GetReportsWeeklyCompleted(1)
    \/ GetReportsWeeklyOverdue(1) \/ GetReportsWeeklyWaitingStale(1)
    \/ GetReportsWeeklyTags(1)

SpecReport == Init /\ [][NextReport]_vars

\* the tags an operator gives a request of the ranking: a name and a number,
\* the same two in the other order and case, a name alone
TagTexts ==
    {Str(<<"a", ",", "1">>), Str(<<"1", ",", " ", "A">>), Str(<<"b", ",", ",", "b">>)}

TagCreates ==
    [clientId : {Ref(1)}, title : {TitleOk}, details : {Undefined},
     customerName : {Undefined}, dueDate : {Undefined}, tags : {Undefined} \cup TagTexts]

\* Tag ranking: requests with tags, then the weekly report of their client
NextTags ==
    \/ Start
    \/ \E body \in TagCreates : PostRequests(1, body)
    \/ PostRequestsInsert(1) \/ PostRequestsFetch(1)
    \/ GetReportsWeekly(1, Ref(1))
    \/ GetReportsWeeklyCreated(1) \/ GetReportsWeeklyCompleted(1)
    \/ GetReportsWeeklyOverdue(1) \/ GetReportsWeeklyWaitingStale(1)
    \/ GetReportsWeeklyTags(1)

SpecTags == Init /\ [][NextTags]_vars

\* Archive and Unarchive: two clients, the public calls on their codes and the
\* listing; one call at a time, and the clock moves while a client is archived
NextArchive ==
    \/ Start
    \/ (\E id \in DOMAIN clients : clients[id].archived # 0) /\ Tick
    \/ nextClient < 2 /\ PostClients(1, Str(<<" ", "x", "y">>))
    \/ PostClientsCode(1) \/ PostClientsInsert(1) \/ PostClientsFetch(1)
    \/ \E id \in AnyClientId, flag \in {0, 1} : PostClientsArchive(1, id, flag)
    \/ PostClientsArchiveUpdate(1) \/ PostClientsArchiveFetch(1)
    \/ GetClients(1, FALSE)
    \/ \E code \in RandCodes : GetPublicClient(1, Visitor, code)
    \/ \E code \in RandCodes, body \in PlainSubmits :
         PostPublicRequests(1, Visitor, code, body)
    \/ PostPublicRequestsInsert(1) \/ PostPublicRequestsFetch(1)

SpecArchive == Init /\ [][NextArchive]_vars

\* two Edits of one request in flight together, their statements interleaved
NextOverlap ==
    \/ Start
    \/ \E body \in {b \in FullCreates : b.title = TitleOk} : PostRequests(1, body)
    \/ PostRequestsInsert(1) \/ PostRequestsFetch(1)
    \/ \E p \in Procs :
         \/ \E id \in EditTargets, body \in RaceEdits : PatchRequests(p, id, body)
         \/ PatchRequestsUpdate(p) \/ PatchRequestsFetch(p)

SpecOverlap == Init /\ [][NextOverlap]_vars

\* the due dates an operator stores: none, the instant of start-up, a blank
\* and a word on Create; the empty text, null and a move to done on Edit
DueCreates ==
    [clientId : {Ref(1)}, title : {TitleOk}, details : {Undefined},
     customerName : {Undefined},
     dueDate : {Undefined, Str(Iso(0)), Str(<<" ">>), Str(<<"x">>)}, tags : {Undefined}]

DueEdits ==
    {[NoPatch EXCEPT !.dueDate = Str(<<>>)], [NoPatch EXCEPT !.dueDate = NULL],
     [NoPatch EXCEPT !.status = StDone]}

\* Overdue: requests with due dates, then the weekly report of their client
NextOverdue ==
    \/ Start
    \/ Tick
    \/ \E body \in DueCreates : PostRequests(1, body)
    \/ PostRequestsInsert(1) \/ PostRequestsFetch(1)
    \/ \E id \in EditTargets, body \in DueEdits : PatchRequests(1, id, body)
    \/ PatchRequestsUpdate(1) \/ PatchRequestsFetch(1)
    \/ GetReportsWeekly(1, Ref(1))
    \/ GetReportsWeeklyCreated(1) \/ GetReportsWeeklyCompleted(1)
    \/ GetReportsWeeklyOverdue(1) \/ GetReportsWeeklyWaitingStale(1)
    \/ GetReportsWeeklyTags(1)

SpecOverdue == Init /\ [][NextOverdue]_vars

\* the limiter's window: one address floods the public lookup while the window
\* ends
NextWindow ==
    \/ Start
    \/ Advance(RateInstants)
    \/ GetPublicClient(1, Flooder, FloodCode)
    \/ GetPublicClient(2, Visitor, FloodCode)

SpecWindow == Init /\ [][NextWindow]_vars

\* the status and q of a List: none, two of the four statuses, a status in
\* capitals, the empty text; no q, a blank, a letter of the titles in capitals
\* and a letter of no title
ListStatuses == {Undefined, StNew, StDone, Str(<<"D", "o", "n", "e">>), Str(<<>>)}
ListQueries == {Undefined, Str(<<" ">>), Str(<<"A">>), Str(<<"z">>)}

\* the queries of a List: every client alone, every status and every q for the
\* first client, and a status with a q
ListCalls ==
    {<<clientId, Undefined, Undefined>> : clientId \in {Undefined, Ref(1), Ref(2)}}
        \cup {<<Ref(1), status, Undefined>> : status \in ListStatuses}
        \cup {<<Ref(1), Undefined, q>> : q \in ListQueries}
        \cup {<<Ref(1), StDone, Str(<<"A">>)>>, <<Ref(2), StNew, Str(<<"z">>)>>}

\* List: requests of two clients are created and moved while time passes
\* between the calls, and listed; one call at a time
NextList ==
    \/ Start
    \/ Free(1) /\ Tick
    \/ nextClient < 2 /\ PostClients(1, Str(<<" ", "x", "y">>))
    \/ PostClientsCode(1) \/ PostClientsInsert(1) \/ PostClientsFetch(1)
    \/ \E body \in {b \in PlainCreates : b.clientId \in {Ref(1), Ref(2)}} : PostRequests(1, body)
    \/ PostRequestsInsert(1) \/ PostRequestsFetch(1)
    \/ \E id \in EditTargets : PatchRequests(1, id, [NoPatch EXCEPT !.status = StDone])
    \/ PatchRequestsUpdate(1) \/ PatchRequestsFetch(1)
    \/ \E c \in ListCalls : GetRequests(1, c[1], c[2], c[3])
    \/ GetRequestsSelect(1)

SpecList == Init /\ [][NextList]_vars

\* calls that name a client or a request by id, stored or not; one call at a time
NextById ==
    \/ Start
    \/ \E body \in RaceCreates : PostRequests(1, body)
    \/ PostRequestsInsert(1) \/ PostRequestsFetch(1)
    \/ \E id \in AnyClientId, flag \in {0, 1} : PostClientsArchive(1, id, flag)
    \/ PostClientsArchiveUpdate(1) \/ PostClientsArchiveFetch(1)
    \/ \E id \in AnyClientId : PostClientsRotatePin(1, id)
    \/ PostClientsRotatePinUpdate(1) \/ PostClientsRotatePinFetch(1)
    \/ \E id \in AnyClientId : GetClientsPin(1, id)
    \/ \E id \in AnyClientId : DeleteClients(1, id)
    \/ DeleteClientsRequests(1) \/ DeleteClientsClient(1)
    \/ \E id \in AnyRequestId : PatchRequests(1, id, [NoPatch EXCEPT !.status = StDone])
    \/ PatchRequestsUpdate(1) \/ PatchRequestsFetch(1)
    \/ \E id \in AnyRequestId : DeleteRequests(1, id)
    \/ DeleteRequestsDelete(1)

SpecById == Init /\ [][NextById]_vars

\* a row of clients written before the columns client_code, archived and
\* customer_pin existed: ALTER TABLE gave it NULL, 0 and NULL
LegacyClient(id, code) ==
    [id |-> id, name |-> Str(<<"L">>), client_code |-> code, customer_pin |-> NULL,
     archived |-> 0, created_at |-> 0]

\* the databases start() finds: empty, or one or two clients of an earlier
\* version, with no code, the empty code or a code; the UNIQUE index of initDb
\* holds on them
LegacyStores ==
    {cl \in UNION {[1..n -> {LegacyClient(id, code) :
                                id \in 1..n, code \in {NULL, Str(<<>>), Str(<<"a">>)}}] :
                      n \in 0..2} :
        /\ \A id \in DOMAIN cl : cl[id].id = id
        /\ \A id \in DOMAIN cl : CodeFree(cl, id, cl[id].client_code)}

InitLegacy ==
    /\ booted = FALSE
    /\ now = 0
    /\ clients \in LegacyStores
    /\ requests = Empty
    /\ nextClient = Cardinality(DOMAIN clients)
    /\ nextRequest = 0
    /\ publicRate = [ip \in Addresses |-> Absent]
    /\ passed = [ip \in Addresses |-> <<>>]
    /\ calls = [p \in Procs |-> Idle]
    /\ board = NoBoard

\* Bootstrap: start() on a new or an older database, the operator's creates and
\* hard deletes, and restarts
NextBoot ==
    \/ Start
    \/ Stop
    \/ PostClients(1, Str(<<" ", "x", "y">>))
    \/ PostClientsCode(1) \/ PostClientsInsert(1) \/ PostClientsFetch(1)
    \/ \E id \in AnyClientId : DeleteClients(1, id)
    \/ DeleteClientsRequests(1) \/ DeleteClientsClient(1)

SpecBoot == InitLegacy /\ [][NextBoot]_vars

\* public Submits while the operator archives and unarchives the client: two
\* calls in flight, their statements interleaved
NextSubmitRace ==
    \/ Start
    \/ \E p \in Procs :
         \/ PostClientsRotatePin(p, 1)
         \/ PostClientsRotatePinUpdate(p) \/ PostClientsRotatePinFetch(p)
         \/ \E flag \in {0, 1} : PostClientsArchive(p, 1, flag)
         \/ PostClientsArchiveUpdate(p) \/ PostClientsArchiveFetch(p)
         \/ \E code \in RandCodes, body \in PlainSubmits :
              PostPublicRequests(p, Visitor, code, body)
         \/ PostPublicRequestsInsert(p) \/ PostPublicRequestsFetch(p)

SpecSubmitRace == Init /\ [][NextSubmitRace]_vars

\* the statuses the cards are moved to
MoveStatuses == {StDoing, StDone}

\* Board: the operator creates requests of the selected client, the page loads
\* them while it awaits nothing, and moves them while no load is awaited; its
\* calls travel on two connections and are answered in any order. A refetch
\* always arrives.
NextBoard ==
    \/ Start
    \/ board.awaits[1] = Quiet /\ \E body \in RaceCreates : PostRequests(1, body)
    \/ PostRequestsInsert(1) \/ PostRequestsFetch(1)
    \/ \E p \in Procs :
         \/ (\A q \in Procs : board.awaits[q] = Quiet) /\ loadRequests(p)
         \/ loadRequestsGet(p) \/ GetRequestsSelect(p)
         \/ loadRequestsSettled(p, TRUE)
         \/ /\ \A q \in Procs : board.awaits[q].k # "load"
            /\ \E id \in AnyRequestId, status \in MoveStatuses : move(p, id, status)
         \/ movePatch(p)
         \/ PatchRequestsUpdate(p) \/ PatchRequestsFetch(p)
         \/ \E ok \in BOOLEAN : moveSettled(p, ok)

SpecBoard == Init /\ [][NextBoard]_vars

----------------------------------------------------------------------------
(* Properties.  A call begins in a step that leaves slot 1 free before it  *)
(* and changes the slot; the other steps of a call are named by its pc.    *)

Begins(op) == Free(1) /\ calls'[1] # calls[1] /\ calls'[1].op = op

Moves(op, from, to) == At(1, op, from) /\ calls'[1].op = op /\ calls'[1].pc = to

\* the rows of rq other than row id are the rows of rq2 other than it
SameExcept(rq, rq2, id) ==
    /\ DOMAIN rq \ {id} = DOMAIN rq2 \ {id}
    /\ \A o \in DOMAIN rq \ {id} : rq2[o] = rq[o]

C1Step ==
    /\ (Begins("PatchRequests") /\ calls'[1].req.id \in DOMAIN requests) =>
         LET st == calls'[1].req.body.status
         IN  /\ st \in Statuses => calls'[1].pc = "update"
             /\ (st # Undefined /\ st \notin Statuses) =>
                  /\ calls'[1].pc = "done" /\ calls'[1].res.status = 400
                  /\ requests' = requests
    /\ (Moves("PatchRequests", "update", "fetch") /\ calls[1].req.body.status \in Statuses) =>
         /\ requests'[calls[1].req.id].status = calls[1].req.body.status
         /\ SameExcept(requests, requests', calls[1].req.id)
    /\ (Moves("PatchRequests", "fetch", "done") /\ calls[1].req.body.status \in Statuses) =>
         /\ calls'[1].res.status = 200
         /\ calls'[1].res.body.request.status = calls[1].req.body.status
         /\ requests' = requests
         /\ requests[calls[1].req.id].status = calls[1].req.body.status

\* C1: an Edit of an existing request with a status in {new, doing, waiting,
\* done} is accepted whatever the current status is, its UPDATE stores that
\* status and it answers 200 with it; an Edit with any other status value is
\* answered 400 and leaves the table unchanged.
C1_StatusClosure == [][C1Step]_vars

\* a done request is being reopened: the Edit passed the check of the status
C1_Witness ==
    /\ At(1, "PatchRequests", "update")
    /\ requests[calls[1].req.id].status = StDone
    /\ calls[1].req.body.status = StNew

\* an Edit with a status outside the four was answered 400
C1_WitnessInvalid ==
    /\ Answered(1, "PatchRequests") /\ calls[1].res.status = 400
    /\ calls[1].req.body.status = NULL

\* the public Submit of the claim: the code of a stored client that is not
\* archived, the PIN stored for it, a title of trimmed length >= 2
SubmitValid(cl, clientCode, body) ==
    \E id \in DOMAIN cl :
        /\ cl[id].client_code = clientCode /\ cl[id].archived = 0
        /\ cl[id].customer_pin # NULL /\ body.pin = cl[id].customer_pin
        /\ body.title.k = "string" /\ Len(Trim(body.title.s)) >= 2

C2Step ==
    /\ (Begins("PostPublicRequests")
        /\ SubmitValid(clients, calls'[1].req.clientCode, calls'[1].req.body)) =>
         calls'[1].pc = "insert" /\ requests' = requests
    /\ Moves("PostPublicRequests", "insert", "fetch") =>
         \E r \in DOMAIN requests' \ DOMAIN requests :
             /\ DOMAIN requests' = DOMAIN requests \cup {r}
             /\ SameExcept(requests, requests', r)
             /\ requests'[r].client_id = ClientByCode(clients, calls[1].req.clientCode).id
             /\ requests'[r].status = StNew
             /\ requests'[r].created_by = OwnerLink
             /\ requests'[r].tags = NULL
             /\ requests'[r].created_at = requests'[r].updated_at
             /\ calls'[1].loc.row.id = r
    /\ Moves("PostPublicRequests", "fetch", "done") =>
         /\ calls'[1].res.status = 201
         /\ calls'[1].res.body.request = requests[calls[1].loc.row.id]
         /\ requests' = requests

\* C2: a public Submit (admitted by the rate limit) with the code of a stored,
\* non-archived client, that client's PIN and a title of trimmed length >= 2 is
\* accepted, its INSERT adds exactly one request, of that client, with status
\* new, created_by owner_link, tags NULL and created_at = updated_at, and it
\* answers 201 with that row.
C2_SubmitStores == [][C2Step]_vars

\* a Submit answered 201 with the request it stored, some time after start-up
C2_Witness ==
    /\ Answered(1, "PostPublicRequests") /\ calls[1].res.status = 201
    /\ calls[1].res.body.request.created_by = OwnerLink
    /\ calls[1].res.body.request.created_at = 1
    /\ calls[1].res.body.request.id \in DOMAIN requests

\* the PIN a public caller submitted, as text (none submitted: the empty text)
SubmittedPin(body) == IF body.pin = Undefined THEN <<>> ELSE JSString(body.pin)

\* the Submit addresses a stored client that is not archived with a PIN that is
\* not the one stored for it
SubmitWrongPin(cl, clientCode, body) ==
    \E id \in DOMAIN cl :
        /\ cl[id].client_code = clientCode /\ cl[id].archived = 0
        /\ (cl[id].customer_pin = NULL \/ SubmittedPin(body) # cl[id].customer_pin.s)

C3Step ==
    (Begins("PostPublicRequests")
     /\ SubmitWrongPin(clients, calls'[1].req.clientCode, calls'[1].req.body)) =>
        /\ calls'[1].pc = "done" /\ calls'[1].res.status = 403
        /\ requests' = requests /\ clients' = clients /\ nextRequest' = nextRequest

\* C3: a public Submit (admitted by the rate limit) to a stored, non-archived
\* client with a PIN that differs from the stored one is answered 403 whatever
\* its title is, and changes neither table.
C3_WrongPinForbidden == [][C3Step]_vars

\* a Submit with a wrong PIN and no valid title was answered 403, not 400
C3_Witness ==
    /\ Answered(1, "PostPublicRequests")
    /\ calls[1].res = Fail(403, "Invalid PIN")
    /\ TitleMissing(calls[1].req.body.title)

ArchivedCodes == {clients[id].client_code : id \in {i \in DOMAIN clients : clients[i].archived # 0}}

UnknownCodes == {u \in PublicCodes : \A id \in DOMAIN clients : clients[id].client_code # u}

\* C4: for an archived client both public routes answer 404, whatever PIN is
\* submitted, with exactly the answer they give for a code no client has.
C4_ArchivedLooksUnknown ==
    /\ \A a \in ArchivedCodes, u \in UnknownCodes :
         /\ GetPublicClientReply(clients, a) = GetPublicClientReply(clients, u)
         /\ GetPublicClientReply(clients, a).status = 404
         /\ \A body \in SubmitBodies, other \in SubmitBodies :
              /\ PostPublicRequestsCheck(clients, a, body)
                    = PostPublicRequestsCheck(clients, u, other)
              /\ PostPublicRequestsCheck(clients, a, body).status = 404
    /\ \A op \in {"GetPublicClient", "PostPublicRequests"} :
         (Answered(1, op) /\ calls[1].req.clientCode \in ArchivedCodes \cup UnknownCodes) =>
            calls[1].res = Fail(404, "Client not found")

\* a Submit with the right PIN for an archived client was answered 404
C4_Witness ==
    /\ Answered(1, "PostPublicRequests") /\ calls[1].res.status = 404
    /\ \E id \in DOMAIN clients :
         /\ clients[id].archived = 1
         /\ clients[id].client_code = calls[1].req.clientCode
         /\ clients[id].customer_pin = calls[1].req.body.pin

\* a 6-digit numeric string
IsPin(v) ==
    /\ v.k = "string" /\ Len(v.s) = 6
    /\ \A i \in 1..6 : \E d \in 0..9 : v.s[i] = Digit(d)

\* C5: once start() has completed, every stored client has a 6-digit PIN.
C5_EveryClientHasPin == booted => \A id \in DOMAIN clients : IsPin(clients[id].customer_pin)

\* C5: a public Submit is never answered 403 "PIN is required".
C5_NeverPinRequired ==
    Answered(1, "PostPublicRequests") => calls[1].res # Fail(403, "PIN is required")

C6Step ==
    /\ Moves("DeleteClients", "requests", "client") =>
         LET id == calls[1].req.id
         IN  /\ \A r \in DOMAIN requests' : requests'[r].client_id # id
             /\ DOMAIN requests' \subseteq DOMAIN requests
             /\ \A r \in DOMAIN requests :
                  requests[r].client_id # id => r \in DOMAIN requests' /\ requests'[r] = requests[r]
             /\ clients' = clients
    /\ Moves("DeleteClients", "client", "done") =>
         LET id == calls[1].req.id
         IN  /\ calls'[1].res = Reply(200, [ok |-> TRUE])
             /\ requests' = requests
             /\ \A r \in DOMAIN requests' : requests'[r].client_id # id
             /\ DOMAIN clients' = DOMAIN clients \ {id}
             /\ \A o \in DOMAIN clients' : clients'[o] = clients[o]
             /\ \A b \in BOOLEAN : \A row \in GetClientsReply(clients', b).body.clients : row.id # id
             /\ GetClientsPinReply(clients', id).status = 404
             /\ GetPublicClientReply(clients', clients[id].client_code).status = 404
             /\ GetReportsWeeklyClient(clients', Ref(id)).status = 400
    /\ (Answered(1, "DeleteClients") /\ calls[1].res.status = 200) =>
         /\ calls[1].req.id \notin DOMAIN clients
         /\ \A r \in DOMAIN requests : requests[r].client_id # calls[1].req.id

\* C6: a HardDelete of a stored client, run on its own, removes every request
\* of that client and no other request, then the client and no other client,
\* and answers 200; from then on no request has the client's id and the list
\* of clients, the PIN lookup, the public lookup by its code and the weekly
\* report do not find the client.
C6_CascadeDelete == [][C6Step]_vars

\* a HardDelete answered 200 after it removed a request and kept another client's
C6_Witness ==
    /\ Answered(1, "DeleteClients") /\ calls[1].res.status = 200
    /\ nextRequest = 2 /\ Cardinality(DOMAIN requests) = 1
    /\ DOMAIN clients # {}

\* C7: when no call is in flight, every stored request belongs to a stored
\* client, however HardDelete was interleaved with Create and Submit.
C7_NoOrphans ==
    (\A p \in Procs : Free(p)) => \A r \in DOMAIN requests : requests[r].client_id \in DOMAIN clients

\* C8: a HardDelete that failed and left the client stored removed no request.
C8_AllOrNothing ==
    (Answered(1, "DeleteClients") /\ calls[1].res.status = 0
     /\ calls[1].req.id \in DOMAIN clients) => calls[1].res.changes = 0

C9Step ==
    Moves("RotatePin", "update", "fetch") =>
        LET id == calls[1].req.id
            old == clients[id].customer_pin
            code == clients[id].client_code
        IN  (old # NULL /\ clients[id].archived = 0) =>
                \A body \in SubmitBodies :
                    /\ body.pin = old =>
                         PostPublicRequestsCheck(clients', code, body) = Fail(403, "Invalid PIN")
                    /\ (body.pin = clients'[id].customer_pin /\ body.title = TitleOk) =>
                         PostPublicRequestsCheck(clients', code, body) = Undefined

\* C9: once RotatePin has stored its PIN, a public Submit with the PIN that was
\* stored before is answered 403 and one with the PIN now stored is accepted,
\* whatever genPin returned.
C9_RotationInvalidates == [][C9Step]_vars

\* C10: the public lookup by code answers the same whatever PIN is stored for
\* the client, its answer holds id, name, clientCode and pinRequired = true and
\* nothing else, and that is the answer a caller got.
C10_ResolveHidesPin ==
    /\ \A code \in PublicCodes :
         LET r == GetPublicClientReply(clients, code)
         IN  /\ \A id \in DOMAIN clients, pin \in {NULL} \cup {genPin(x) : x \in RandPin} :
                  GetPublicClientReply(UpdatePin(clients, id, pin), code) = r
             /\ r.status = 200 =>
                  /\ DOMAIN r.body.client = {"id", "name", "clientCode", "pinRequired"}
                  /\ r.body.client.pinRequired = TRUE
                  /\ r.body.client.clientCode = code
                  /\ clients[r.body.client.id].client_code = code
                  /\ clients[r.body.client.id].name = r.body.client.name
    /\ Answered(1, "GetPublicClient") =>
         calls[1].res = GetPublicClientReply(clients, calls[1].req.clientCode)

\* a public lookup answered 200 for a client that has a PIN
C10_Witness ==
    /\ Answered(1, "GetPublicClient") /\ calls[1].res.status = 200
    /\ clients[calls[1].res.body.client.id].customer_pin # NULL

----------------------------------------------------------------------------
(* C11: the rate limit of the public routes *)

\* the calls of an address that reached a handler in the limiter's current window
WindowPasses(ip) ==
    IF publicRate[ip] = Absent THEN 0
    ELSE Cardinality({i \in DOMAIN passed[ip] :
                         passed[ip][i] >= publicRate[ip].resetAt - windowMs})

\* a window is the 60 seconds after a call that was passed, and holds at most max
C11Windows ==
    \A ip \in Addresses :
        /\ WindowPasses(ip) <= max
        /\ publicRate[ip] # Absent =>
              \E i \in DOMAIN passed[ip] : passed[ip][i] + 60000 = publicRate[ip].resetAt

\* a public call of an address: it is passed while the window holds fewer than
\* max passed calls, else answered 429 with the store as it was; the other
\* addresses' counts are left alone
C11Step ==
    publicRate' # publicRate =>
        \E ip \in Addresses :
            /\ \A o \in Addresses \ {ip} : publicRate'[o] = publicRate[o] /\ passed'[o] = passed[o]
            /\ LET open == IF publicRate[ip] = Absent THEN FALSE ELSE now <= publicRate[ip].resetAt
                    n == IF open THEN WindowPasses(ip) ELSE 0
               IN  IF n < 20
                   THEN passed'[ip] = Append(passed[ip], now)
                   ELSE /\ passed' = passed
                        /\ clients' = clients /\ requests' = requests
                        /\ nextRequest' = nextRequest
                        /\ \E p \in Procs :
                             /\ calls'[p].pc = "done"
                             /\ calls'[p].res = Fail(429, "Too many requests, try again shortly")
                             /\ calls'[p].req.ip = ip
                             /\ \A q \in Procs \ {p} : calls'[q] = calls[q]

\* C11: for each address at most 20 public calls (lookups and submissions
\* together) reach a handler within one 60-second window of the limiter; every
\* further call of the window is answered 429 and changes neither clients nor
\* requests, whatever calls are in flight, and no call changes the count of
\* another address
C11_RateLimit == []C11Windows /\ [][C11Step]_vars

\* the flooder's submission is refused after 20 of its calls were passed in the
\* window, one of which stored a request, while the visitor has called too
C11_Witness ==
    /\ Answered(1, "PostPublicRequests")
    /\ calls[1].res = TooMany
    /\ WindowPasses(Flooder) = 20
    /\ DOMAIN requests # {}
    /\ passed[Visitor] # <<>>
    /\ ~Free(2)

----------------------------------------------------------------------------
(* C12: partial Edits *)

\* a field the body leaves out keeps its value
KeepsAbsent(v, old, new) == v = Undefined => new = old

\* an optional field: kept when left out, cleared by null
KeepsOrClears(v, old, new) == KeepsAbsent(v, old, new) /\ (v = NULL => new = NULL)

C12Step ==
    /\ (Begins("PatchRequests") /\ calls'[1].req.id \in DOMAIN requests
        /\ calls'[1].req.body.status \in {Undefined} \cup Statuses) =>
         /\ calls'[1].pc = "update" /\ requests' = requests
         /\ calls'[1].loc.ts = now
    /\ Moves("PatchRequests", "update", "fetch") =>
         LET b == calls[1].req.body
             old == requests[calls[1].req.id]
             new == requests'[calls[1].req.id]
         IN  /\ SameExcept(requests, requests', calls[1].req.id)
             /\ DOMAIN requests' = DOMAIN requests
             /\ KeepsAbsent(b.title, old.title, new.title)
             /\ KeepsAbsent(b.status, old.status, new.status)
             /\ KeepsOrClears(b.details, old.details, new.details)
             /\ KeepsOrClears(b.customerName, old.customer_name, new.customer_name)
             /\ KeepsOrClears(b.dueDate, old.due_date, new.due_date)
             /\ KeepsOrClears(b.tags, old.tags, new.tags)
             /\ new.updated_at = calls[1].loc.ts
    /\ Moves("PatchRequests", "fetch", "done") =>
         /\ calls'[1].res.status = 200
         /\ calls'[1].res.body.request = requests[calls[1].req.id]
         /\ requests' = requests

\* C12: an Edit keeps every field its body leaves out (so {status: done}
\* leaves title, details, customer_name, due_date and tags as stored), clears
\* an optional field given as null (so {tags: null} stores tags NULL and
\* nothing else), sets updated_at to the instant the Edit was handled, touches
\* no other request and answers 200 with the stored row.
C12_PartialEdit == [][C12Step]_vars

\* {tags: null} was answered with the tags cleared, the other optional fields
\* as created and updated_at after created_at
C12_Witness ==
    /\ Answered(1, "PatchRequests") /\ calls[1].res.status = 200
    /\ calls[1].req.body = [NoPatch EXCEPT !.tags = NULL]
    /\ calls[1].res.body.request.tags = NULL
    /\ calls[1].res.body.request.details = Str(<<"d">>)
    /\ calls[1].res.body.request.customer_name = Str(<<"c">>)
    /\ calls[1].res.body.request.due_date = Str(<<"9">>)
    /\ calls[1].res.body.request.created_at = 0
    /\ calls[1].res.body.request.updated_at = 1

\* {status: done} was answered with the status stored and the tags as created
C12_WitnessDone ==
    /\ Answered(1, "PatchRequests") /\ calls[1].res.status = 200
    /\ calls[1].req.body = [NoPatch EXCEPT !.status = StDone]
    /\ calls[1].res.body.request.status = StDone
    /\ calls[1].res.body.request.tags = Str(<<"t">>)
    /\ calls[1].res.body.request.updated_at = 1

----------------------------------------------------------------------------
(* C13: operator Create *)

\* no title, or a title whose trimmed text is shorter than 2 characters
TitleTooShort(title) ==
    IF title.k \in {"string", "number"} THEN Len(Trim(JSString(title))) < 2 ELSE TRUE

\* the Create the claim rejects
CreateInvalid(cl, body) ==
    IF body.clientId = Undefined THEN TRUE
    ELSE IF body.clientId.id \notin DOMAIN cl THEN TRUE
    ELSE TitleTooShort(body.title)

C13Step ==
    /\ Begins("PostRequests") =>
         IF CreateInvalid(clients, calls'[1].req)
         THEN /\ calls'[1].pc = "done" /\ calls'[1].res.status = 400
              /\ requests' = requests /\ nextRequest' = nextRequest
         ELSE calls'[1].pc = "insert" /\ requests' = requests
    /\ Moves("PostRequests", "insert", "fetch") =>
         \E r \in DOMAIN requests' \ DOMAIN requests :
             /\ DOMAIN requests' = DOMAIN requests \cup {r}
             /\ SameExcept(requests, requests', r)
             /\ requests'[r].client_id = calls[1].req.clientId.id
             /\ requests'[r].title = Str(Trim(JSString(calls[1].req.title)))
             /\ requests'[r].status = Str(<<"n", "e", "w">>)
             /\ requests'[r].created_by = UserId
             /\ requests'[r].created_at = requests'[r].updated_at
             /\ calls'[1].loc.row.id = r
    /\ Moves("PostRequests", "fetch", "done") =>
         /\ calls'[1].res.status = 201
         /\ calls'[1].res.body.request = requests[calls[1].loc.row.id]
         /\ requests' = requests

\* C13: an operator Create whose clientId names no stored client, or whose
\* title is missing or shorter than 2 characters once trimmed, is answered 400
\* and stores nothing; any other Create stores exactly one request with status
\* new, created_at = updated_at, the given client, the trimmed title and the
\* operator as created_by, and answers 201 with that row.
C13_CreateValidates == [][C13Step]_vars

\* a Create with a padded title was answered 201 with the trimmed title, some
\* time after start-up
C13_Witness ==
    /\ Answered(1, "PostRequests") /\ calls[1].res.status = 201
    /\ calls[1].req.title = Str(<<" ", "a", "b">>)
    /\ calls[1].res.body.request.title = Str(<<"a", "b">>)
    /\ calls[1].res.body.request.created_at = 1
    /\ calls[1].res.body.request.created_by = UserId
    /\ nextRequest = 1

\* a Create for a client that was deleted was answered 400
C13_WitnessDeleted ==
    /\ Answered(1, "PostRequests") /\ calls[1].res.status = 400
    /\ calls[1].req.clientId = Ref(1) /\ calls[1].req.title = TitleOk
    /\ nextClient = 1

----------------------------------------------------------------------------
(* C14: the title of a stored request *)

\* C14: every stored request has a title that is a string, trimmed and at
\* least 2 characters long, after any Creates and Edits.
C14_TitlesValid ==
    \A r \in DOMAIN requests :
        /\ requests[r].title.k = "string"
        /\ Trim(requests[r].title.s) = requests[r].title.s
        /\ Len(requests[r].title.s) >= 2

----------------------------------------------------------------------------
(* C16: the fields no Edit changes *)

C16Step ==
    /\ \A r \in DOMAIN requests \cap DOMAIN requests' :
         /\ requests'[r].id = requests[r].id /\ requests[r].id = r
         /\ requests'[r].client_id = requests[r].client_id
         /\ requests'[r].created_by = requests[r].created_by
         /\ requests'[r].created_at = requests[r].created_at
    /\ (calls[1].op = "PatchRequests" /\ ~Free(1)) => DOMAIN requests' = DOMAIN requests
    /\ Begins("PatchRequests") => requests' = requests

\* C16: a stored request keeps its id, client_id, created_by and created_at in
\* every step, and no step of an Edit adds or removes a request, whatever the
\* body of the Edit names.
C16_CreationFieldsFixed == [][C16Step]_vars

\* an Edit whose body names id, clientId, createdBy and createdAt was answered
\* 200 with those fields as created
C16_Witness ==
    /\ Answered(1, "PatchRequests") /\ calls[1].res.status = 200
    /\ calls[1].req.body.createdAt = Num(9) /\ calls[1].req.body.clientId = Ref(MaxClients)
    /\ calls[1].res.body.request.id = 1
    /\ calls[1].res.body.request.client_id = 1
    /\ calls[1].res.body.request.created_by = UserId
    /\ calls[1].res.body.request.created_at = 0
    /\ calls[1].res.body.request.updated_at = 1

----------------------------------------------------------------------------
(* C15: the order of the two timestamps *)

\* C15: with a clock that never goes backwards, every stored request has
\* updated_at >= created_at, after any Creates and Edits, interleaved or not.
C15_UpdatedNotBeforeCreated ==
    \A r \in DOMAIN requests : requests[r].updated_at >= requests[r].created_at

\* an Edit handled after the clock advanced has stored its instant
C15_Witness ==
    \E r \in DOMAIN requests :
        /\ requests[r].updated_at > requests[r].created_at
        /\ \E p \in Procs : At(p, "PatchRequests", "fetch") /\ calls[p].req.id = r

----------------------------------------------------------------------------
(* C18: what an Edit answers *)

\* C18: an Edit that answers 200 answers with a request row, also when other
\* Edits and a Delete of the same request are in flight.
C18_EditAnswersRow ==
    \A p \in Procs :
        (Answered(p, "PatchRequests") /\ calls[p].res.status = 200) =>
            calls[p].res.body.request # Undefined

----------------------------------------------------------------------------
(* C17: the submission codes are unique *)

\* C17: no two stored clients have the same client_code, whether the clients
\* are created in sequence or by calls in flight together, and also when the
\* five lookups of a create all find their code taken.
C17_CodesUnique ==
    \A a \in DOMAIN clients : \A b \in DOMAIN clients \ {a} :
        clients[a].client_code # clients[b].client_code

\* two creates raced for one code: the INSERT of one was rejected, the other's
\* row is stored
C17_Witness ==
    \E p \in Procs : \E q \in Procs \ {p} :
        /\ Answered(p, "PostClients") /\ calls[p].res = Unhandled
        /\ At(q, "PostClients", "fetch")
        /\ Cardinality(DOMAIN clients) = 2

\* a create whose five lookups all found the code taken is about to INSERT a
\* sixth draw that is taken as well
C17_WitnessRetries ==
    \E p \in Procs :
        /\ At(p, "PostClients", "insert") /\ calls[p].loc.i = 5
        /\ ~CodeFree(clients, calls[p].loc.id, calls[p].loc.clientCode)

----------------------------------------------------------------------------
(* C19: the window counts of the weekly report *)

\* the report is being answered: its client and the instant it took for now
ReportAnswers == Moves("GetReportsWeekly", "tags", "done")

\* the requests of a client with a timestamp in [t - 7 days, t]
InWeek(stamp, t) == t - 7 * 24 * 60 * 60 * 1000 <= stamp /\ stamp <= t

C19Step ==
    /\ Begins("GetReportsWeekly") =>
         IF calls'[1].req.clientId = Undefined
         THEN calls'[1].pc = "done" /\ calls'[1].res.status = 400
         ELSE IF calls'[1].req.clientId.id \notin DOMAIN clients
         THEN calls'[1].pc = "done" /\ calls'[1].res.status = 400
         ELSE calls'[1].pc = "created" /\ calls'[1].loc.now = now
    /\ ReportAnswers =>
         LET id == calls[1].req.clientId.id
             t == calls[1].loc.now
             stats == calls'[1].res.body.stats
         IN  /\ calls'[1].res.status = 200
             /\ calls'[1].res.body.client.id = id
             /\ stats.created =
                  Cardinality({r \in DOMAIN requests :
                      requests[r].client_id = id /\ InWeek(requests[r].created_at, t)})
             /\ stats.completed =
                  Cardinality({r \in DOMAIN requests :
                      /\ requests[r].client_id = id
                      /\ requests[r].status = Str(<<"d", "o", "n", "e">>)
                      /\ InWeek(requests[r].updated_at, t)})

\* C19: the weekly report of a stored client answers created = the number of
\* that client's requests with created_at in [now - 7 days, now] and completed =
\* the number of that client's done requests with updated_at in that window,
\* requests of other clients not counted; for a clientId that names no stored
\* client it answers 400.
C19_WeeklyCounts == [][C19Step]_vars

\* a report taken exactly 7 days after the requests were created counts the
\* client's own request as created and as completed, and not the other client's
C19_Witness ==
    /\ Answered(1, "GetReportsWeekly") /\ calls[1].res.status = 200
    /\ now = WeekMs
    /\ calls[1].res.body.stats.created = 1
    /\ calls[1].res.body.stats.completed = 1
    /\ \E r \in DOMAIN requests :
         requests[r].client_id # calls[1].res.body.client.id /\ requests[r].created_at = 0

\* a millisecond later the request is no longer created in the window, but is
\* completed in it
C19_WitnessOutside ==
    /\ Answered(1, "GetReportsWeekly") /\ calls[1].res.status = 200
    /\ now = WeekMs + 1
    /\ calls[1].res.body.stats.created = 0
    /\ calls[1].res.body.stats.completed = 1

----------------------------------------------------------------------------
(* C20: waiting for over 24 hours *)

\* waiting, and updated strictly more than 24 hours before t
WaitingStale(r, t) == r.status = Str(<<"w", "a", "i", "t", "i", "n", "g">>) /\ t - r.updated_at > 86400000

C20Step ==
    /\ \A r \in DOMAIN requests :
         /\ isWaitingStale(requests[r], now) <=> WaitingStale(requests[r], now)
         /\ isWaitingStale(requests[r], requests[r].updated_at + 86400000 + 1000)
               <=> requests[r].status = StWaiting
         /\ ~isWaitingStale(requests[r], requests[r].updated_at + 86400000)
         /\ ~isWaitingStale(requests[r], requests[r].updated_at + 23 * 60 * 60 * 1000)
    /\ ReportAnswers =>
         calls'[1].res.body.stats.waiting24hPlus =
             Cardinality({r \in DOMAIN requests :
                 /\ requests[r].client_id = calls[1].req.clientId.id
                 /\ WaitingStale(requests[r], calls[1].loc.now)})
    /\ Moves("PatchRequests", "update", "fetch") =>
         LET new == requests'[calls[1].req.id]
         IN  /\ ~WaitingStale(new, calls[1].loc.ts)
             /\ ~WaitingStale(new, calls[1].loc.ts + 86400000)

\* C20: a request is waiting-stale exactly when its status is waiting and more
\* than 24 hours have passed since updated_at (not at 23 hours, not at exactly
\* 24 hours, but at 24 hours and 1 second); the dashboard's test and the weekly
\* report's waiting24hPlus both count by this definition, and the UPDATE of an
\* Edit leaves the request not stale as of the Edit.
C20_WaitingStale == [][C20Step]_vars

\* a report taken 24 hours and 1 ms after a move to waiting counts the request
C20_Witness ==
    /\ Answered(1, "GetReportsWeekly") /\ calls[1].res.status = 200
    /\ now = DayMs + 1
    /\ calls[1].res.body.stats.waiting24hPlus = 1
    /\ \E r \in DOMAIN requests :
         /\ requests[r].client_id = calls[1].res.body.client.id
         /\ requests[r].status = StWaiting /\ requests[r].updated_at = 0

\* a report taken exactly 24 hours after the move does not count it
C20_WitnessBoundary ==
    /\ Answered(1, "GetReportsWeekly") /\ calls[1].res.status = 200
    /\ now = DayMs
    /\ calls[1].res.body.stats.waiting24hPlus = 0
    /\ \E r \in DOMAIN requests :
         /\ requests[r].client_id = calls[1].res.body.client.id
         /\ requests[r].status = StWaiting /\ requests[r].updated_at = 0

----------------------------------------------------------------------------
(* C21: the ranking of the tags *)

\* the ranking by count, descending, ties in the order the tags were first
\* met in the scan, cut to five
FirstSeenRanking(rows) ==
    LET parts == AllParts(rows)
        sorted == ByCount(FirstSeen(parts), parts)
        top == SubSeq(sorted, 1, IF Len(sorted) < 5 THEN Len(sorted) ELSE 5)
    IN  [i \in DOMAIN top |-> [tag |-> Str(top[i]), count |-> Occurrences(parts, top[i])]]

C21Step ==
    ReportAnswers =>
        \E rows \in TagRows(requests, calls[1].req.clientId.id) :
            calls'[1].res.body.topTags = FirstSeenRanking(rows)

\* C21: topTags of the weekly report is, for some scan of the client's
\* requests with non-empty tags, the tokens (split on commas, trimmed,
\* lowercased, empty ones dropped) ranked by count descending with ties in
\* first-met order, at most five of them, whatever the text of the tags.
C21_TopTagsFirstSeen == [][C21Step]_vars

----------------------------------------------------------------------------
(* C22: Archive and Unarchive change the archived flag only *)

\* the public call that begins in this step passed the rate limit
Admitted == passed' # passed

\* the stored client a code names, or none
Named(code) == {id \in DOMAIN clients : clients[id].client_code = code}

C22Step ==
    /\ (Begins("Archive") \/ Moves("Archive", "fetch", "done")) =>
         clients' = clients /\ requests' = requests
    /\ Moves("Archive", "update", "fetch") =>
         LET id == calls[1].req.id
         IN  /\ requests' = requests
             /\ DOMAIN clients' = DOMAIN clients
             /\ \A o \in DOMAIN clients \ {id} : clients'[o] = clients[o]
             /\ clients'[id].archived = calls[1].req.flag
             /\ clients'[id].name = clients[id].name
             /\ clients'[id].client_code = clients[id].client_code
             /\ clients'[id].customer_pin = clients[id].customer_pin
             /\ clients'[id].id = id /\ clients'[id].created_at = clients[id].created_at
    /\ Moves("Archive", "fetch", "done") =>
         /\ calls'[1].res.status = 200
         /\ calls'[1].res.body.client = clients[calls[1].req.id]
    /\ (Begins("GetClients") /\ ~calls'[1].req.includeArchived) =>
         calls'[1].res.body.clients =
             {clients[o] : o \in {i \in DOMAIN clients : clients[i].archived = 0}}
    /\ (Begins("GetPublicClient") /\ Admitted) =>
         \A id \in Named(calls'[1].req.clientCode) :
             IF clients[id].archived # 0
             THEN calls'[1].res.status = 404
             ELSE calls'[1].res.status = 200 /\ calls'[1].res.body.client.id = id
    /\ (Begins("PostPublicRequests") /\ Admitted) =>
         \A id \in Named(calls'[1].req.clientCode) :
             IF clients[id].archived # 0
             THEN /\ calls'[1].pc = "done" /\ calls'[1].res.status = 404
                  /\ requests' = requests
             ELSE JSString(calls'[1].req.body.pin) = JSString(clients[id].customer_pin) =>
                    /\ calls'[1].pc = "insert"
                    /\ calls'[1].loc.row.client_id = id
    /\ Moves("PostPublicRequests", "insert", "fetch") =>
         /\ DOMAIN requests' = DOMAIN requests \cup {calls[1].loc.row.id}
         /\ calls[1].loc.row.id \notin DOMAIN requests
    /\ Moves("PostPublicRequests", "fetch", "done") => calls'[1].res.status = 201

\* C22: the UPDATE of Archive and Unarchive sets the archived flag of the
\* client it names and changes nothing else (its name, code and PIN, the other
\* clients, every request); the default listing leaves out exactly the archived
\* clients; the public lookup and Submit on the code of an archived client are
\* answered 404 and store nothing; on the code of a client that is not archived
\* (never archived, or unarchived) a Submit with its PIN is accepted and stored.
C22_ArchiveFrame == [][C22Step]_vars

\* an Archive has been answered for a client that owns a request, and the
\* other client is not archived
C22_Witness ==
    /\ Answered(1, "Archive") /\ calls[1].res.status = 200 /\ calls[1].req.flag = 1
    /\ calls[1].res.body.client.archived = 1
    /\ \E r \in DOMAIN requests : requests[r].client_id = calls[1].req.id
    /\ \E o \in DOMAIN clients : o # calls[1].req.id /\ clients[o].archived = 0

\* a Submit is accepted after the Unarchive: the clock moves only while a
\* client is archived, and the stored request was taken in after it moved
C22_WitnessAgain ==
    /\ Answered(1, "PostPublicRequests") /\ calls[1].res.status = 201
    /\ calls[1].res.body.request.created_at > 0
    /\ Cardinality({r \in DOMAIN requests :
                       requests[r].client_id = calls[1].res.body.request.client_id}) = 2
    /\ \A o \in DOMAIN clients : clients[o].archived = 0

----------------------------------------------------------------------------
(* C23: overlapping Edits of one request *)

C23Step ==
    \A p \in Procs :
        (At(p, "PatchRequests", "update") /\ calls'[p].pc = "fetch") =>
            LET id == calls[p].req.id
                body == calls[p].req.body
            IN  /\ body.status = Undefined => requests'[id].status = requests[id].status
                /\ body.title = Undefined => requests'[id].title = requests[id].title
                /\ body.details = Undefined => requests'[id].details = requests[id].details
                /\ body.customerName = Undefined =>
                     requests'[id].customer_name = requests[id].customer_name
                /\ body.dueDate = Undefined => requests'[id].due_date = requests[id].due_date
                /\ body.tags = Undefined => requests'[id].tags = requests[id].tags

\* C23: the UPDATE of an Edit leaves every field the Edit does not supply at
\* the value stored just before it, also when another Edit of the same request
\* is in flight.
C23_EditKeepsOtherFields == [][C23Step]_vars

----------------------------------------------------------------------------
(* C24: the report's overdue count and the derived state Overdue *)

C24Step ==
    /\ \A r \in DOMAIN requests :
         (requests[r].due_date = NULL \/ requests[r].status = StDone) =>
             ~isOverdue(requests[r], now)
    /\ Moves("GetReportsWeekly", "overdue", "waitingStale") =>
         calls'[1].loc.overdue =
             Cardinality({r \in DOMAIN requests :
                 /\ requests[r].client_id = calls[1].req.clientId.id
                 /\ isOverdue(requests[r], calls[1].loc.now)})

\* C24: the overdue count of the weekly report is the number of the client's
\* requests that the dashboard's and the board's isOverdue call overdue at the
\* report's now, whatever text is stored as due date; a request with no due
\* date or with status done is not overdue.
C24_OverdueAgrees == [][C24Step]_vars

----------------------------------------------------------------------------
(* C25: the end of a window of the rate limit *)

\* the first call of the address that was passed in the limiter's current window
WindowStart(ip) ==
    LET in == {passed[ip][i] : i \in {j \in DOMAIN passed[ip] :
                                         passed[ip][j] >= publicRate[ip].resetAt - windowMs}}
    IN  CHOOSE t \in in : \A u \in in : t <= u

\* the reset time of a window is 60 seconds after the first call of the window
C25Windows ==
    \A ip \in Addresses :
        publicRate[ip] # Absent => publicRate[ip].resetAt = WindowStart(ip) + 60000

\* the address whose call the limiter handles in this step
Calls(ip) == publicRate'[ip] # publicRate[ip]

C25Step ==
    \A ip \in Addresses :
        (Calls(ip) /\ publicRate[ip] # Absent) =>
            IF now > publicRate[ip].resetAt
            THEN /\ publicRate'[ip] = [count |-> 1, resetAt |-> now + 60000]
                 /\ passed'[ip] = Append(passed[ip], now)
            ELSE /\ publicRate'[ip].resetAt = publicRate[ip].resetAt
                 /\ publicRate'[ip].count = publicRate[ip].count + 1
                 /\ publicRate[ip].count >= 20 => passed' = passed

\* C25: a public call of an address that arrives strictly after the reset time
\* of its window is passed and opens a new window of 60 seconds with count 1,
\* however many calls of the old window were refused; a call that arrives up
\* to the reset time, refused or not, leaves the reset time as it is; and the
\* reset time is 60 seconds after the first call of the window. So a blocked
\* address is passed again at any instant later than 60 seconds after the first
\* call of the window in which it was blocked.
C25_WindowReset == []C25Windows /\ [][C25Step]_vars

\* the flooder filled its first window, and its call one millisecond after the
\* reset time has been passed and has opened a new window
C25_Witness ==
    /\ Len(passed[Flooder]) = 21
    /\ \A i \in 1..20 : passed[Flooder][i] = 0
    /\ passed[Flooder][21] = windowMs + 1
    /\ publicRate[Flooder] = [count |-> 1, resetAt |-> 2 * windowMs + 1]
    /\ Answered(1, "GetPublicClient") /\ calls[1].res.status # 429

C25SixtyStep ==
    \A ip \in Addresses :
        (Calls(ip) /\ publicRate[ip] # Absent /\ now >= WindowStart(ip) + 60000) =>
            passed'[ip] = Append(passed[ip], now)

\* C25 as stated: a call of a blocked address that arrives 60 seconds after
\* the first call of its window, or later, is passed.
C25_PassedBySixty == [][C25SixtyStep]_vars

----------------------------------------------------------------------------
(* C26: List of requests *)

\* the rows of a sequence, as a set
Rows(seq) == {seq[i] : i \in DOMAIN seq}

C26Step ==
    /\ Begins("GetRequests") =>
         IF calls'[1].req.clientId = Undefined
         THEN calls'[1].pc = "done" /\ calls'[1].res.status = 400
         ELSE calls'[1].pc = "select"
    /\ (Moves("GetRequests", "select", "done") /\ calls[1].req.q = Undefined) =>
         LET id == calls[1].req.clientId.id
             status == calls[1].req.status
             rows == calls'[1].res.body.requests
             own == {requests[r] : r \in {o \in DOMAIN requests : requests[o].client_id = id}}
         IN  /\ calls'[1].res.status = 200
             /\ Len(rows) = Cardinality(Rows(rows))
             /\ \A i, j \in DOMAIN rows : i < j => rows[i].updated_at >= rows[j].updated_at
             /\ Rows(rows) \subseteq own
             /\ status \in Statuses => Rows(rows) = {r \in own : r.status = status}
             /\ status \notin Statuses => Rows(rows) = own

\* C26: the List of a clientId answers rows of that client only, each once, in
\* descending order of updated_at; with a status filter that is one of new,
\* doing, waiting, done exactly the client's requests of that status; with any
\* other status value, or none, all of the client's requests; and with no
\* clientId it answers 400.
C26_ListFilters == [][C26Step]_vars

\* a List with a status in capitals has answered both requests of the client,
\* one of them done, the later update first, while the other client owns none
C26_Witness ==
    /\ Answered(1, "GetRequests") /\ calls[1].res.status = 200
    /\ calls[1].req.status = Str(<<"D", "o", "n", "e">>) /\ calls[1].req.q = Undefined
    /\ Len(calls[1].res.body.requests) = 2
    /\ calls[1].res.body.requests[1].updated_at > calls[1].res.body.requests[2].updated_at
    /\ \E i \in 1..2 : calls[1].res.body.requests[i].status = StDone

\* a List with the filter done has answered one of the two requests of the client
C26_WitnessFiltered ==
    /\ Answered(1, "GetRequests") /\ calls[1].res.status = 200
    /\ calls[1].req.status = StDone /\ calls[1].req.q = Undefined
    /\ Len(calls[1].res.body.requests) = 1
    /\ Cardinality({r \in DOMAIN requests : requests[r].client_id = calls[1].req.clientId.id}) = 2

----------------------------------------------------------------------------
(* C27: calls on ids that name nothing, and Delete of a request *)

\* the step answers 404 at once and leaves the store as it was
NotFound ==
    /\ calls'[1].pc = "done" /\ calls'[1].res.status = 404
    /\ clients' = clients /\ requests' = requests

C27Step ==
    /\ \A op \in {"Archive", "RotatePin", "GetPin", "DeleteClients"} :
         (Begins(op) /\ calls'[1].req.id \notin DOMAIN clients) => NotFound
    /\ \A op \in {"PatchRequests", "DeleteRequests"} :
         (Begins(op) /\ calls'[1].req.id \notin DOMAIN requests) => NotFound
    /\ (Begins("DeleteRequests") /\ calls'[1].req.id \in DOMAIN requests) =>
         calls'[1].pc = "delete" /\ requests' = requests /\ clients' = clients
    /\ Moves("DeleteRequests", "delete", "done") =>
         /\ calls'[1].res.status = 200
         /\ clients' = clients
         /\ DOMAIN requests' = DOMAIN requests \ {calls[1].req.id}
         /\ \A o \in DOMAIN requests' : requests'[o] = requests[o]

\* C27: Archive, Unarchive, RotatePin, GetPin and HardDelete of an id no stored
\* client has, and Edit and Delete of an id no stored request has, are answered
\* 404 and change no client and no request; Delete of a stored request removes
\* that request and changes nothing else.
C27_NotFoundAndDelete == [][C27Step]_vars

\* a Delete has removed one of the two requests of a client; the other is stored
C27_Witness ==
    /\ Answered(1, "DeleteRequests") /\ calls[1].res.status = 200
    /\ calls[1].req.id \notin DOMAIN requests
    /\ DOMAIN requests # {}

\* an Edit of an id no request has was answered 404 while a request is stored
C27_WitnessNotFound ==
    /\ Answered(1, "PatchRequests") /\ calls[1].res.status = 404
    /\ DOMAIN requests # {} /\ DOMAIN clients # {}

----------------------------------------------------------------------------
(* C28: bootstrap *)

\* start() has completed in this step
Bootstrapped == ~booted /\ booted'

HasCode(c) == c.client_code # NULL /\ c.client_code # Str(<<>>)

C28Step ==
    Bootstrapped =>
        /\ DOMAIN clients' # {}
        /\ \A id \in DOMAIN clients' : HasCode(clients'[id])
        /\ DOMAIN clients = {} => Cardinality(DOMAIN clients') = 1
        /\ DOMAIN clients # {} =>
             /\ DOMAIN clients' = DOMAIN clients
             /\ \A id \in DOMAIN clients :
                  /\ HasCode(clients[id]) => clients'[id] = clients[id]
                  /\ clients'[id] = [clients[id] EXCEPT !.client_code = clients'[id].client_code]

C28_WitnessBackfill ==
    /\ booted
    /\ Cardinality({id \in DOMAIN clients : clients[id].name = Str(<<"L">>)}) = 2
    /\ \A id \in DOMAIN clients : HasCode(clients[id])
    /\ \E id \in DOMAIN clients : clients[id].client_code = Str(<<"b">>)

----------------------------------------------------------------------------
(* C29: public Submit against Archive *)

\* the Archive of the client has been answered, and the client is archived
ArchiveCompleted(id) ==
    /\ id \in DOMAIN clients /\ clients[id].archived # 0
    /\ \E q \in Procs :
         /\ Answered(q, "Archive") /\ calls[q].res.status = 200
         /\ calls[q].req.id = id /\ calls[q].req.flag = 1

C29Step ==
    \A p \in Procs :
        (At(p, "PostPublicRequests", "insert") /\ calls'[p].pc = "fetch") =>
            ~ArchiveCompleted(calls[p].loc.row.client_id)

\* C29: the INSERT of a public Submit does not run for a client whose Archive
\* has been answered and that is archived, whatever the order of the two calls'
\* statements.
C29_NoInsertAfterArchive == [][C29Step]_vars

----------------------------------------------------------------------------
(* C30: the board after its moves *)

\* C30: when the page awaits no answer (every move has been answered, or has
\* failed and its refetch has arrived), every request it shows that is stored
\* has on the board the status that is stored; the page's moves are the only
\* writes to stored requests.
C30_BoardShowsStored ==
    (\A p \in Procs : board.awaits[p] = Quiet) =>
        \A id \in DOMAIN board.requests \cap DOMAIN requests :
            board.requests[id].status = requests[id].status

====
